---- MODULE Spec2Model ----
(***************************************************************************)
(* Model of the pixel-streaming client: the StreamingClient orchestrator   *)
(* (src/src/client.ts) over the GFN provider driver (src/src/gfn/index.ts).*)
(* One attempt is one call of StreamingClient.start; every await of the    *)
(* code is a step boundary, and the code between two awaits is one step.   *)
(* A trace per attempt records, in program order, what the attempt did:    *)
(* the events it emitted, the deleteSession calls it made, the driver and  *)
(* browser calls it made.                                                  *)
(***************************************************************************)
EXTENDS Integers, Sequences, FiniteSets, TLC

\* Bounds of the model.
MaxAttempts == 1
MaxEngineEvents == 2
MaxStops == 2
MaxCallers == 2
MaxStarts == 3

Attempts == 1..MaxAttempts

\* The callers of start the page can have in flight at once; the attempts
\* are the first of them.
Callers == 1..MaxCallers

\* enum StreamProvider
GeforceNow == "gdn"
Ubitus == "ubitus"
StreamProvider == {GeforceNow, Ubitus}

\* enum StreamTarget
Window == "Window"
Embedded == "Embedded"

\* The container argument of start, per target: a Window target takes an
\* existing window or nothing, an Embedded target an element or a CSS selector
\* (one that matches an element, one that matches none).
WindowContainers == {"undefined", "window"}
EmbeddedContainers == {"element", "selector-hit", "selector-miss"}

\* The sessionId an attempt is started with: setup gives every lifecycle its
\* own session.
SessionId(a) == a

\* What globalThis.open returns: null (popup blocked) or the new tab.
OpenResults == {"null", "tab"}

\* enum TerminationErrorCode, the members the driver distinguishes and one
\* other member; "undefined" is an engine event without a code.
ServerDisconnectedIntended == "ServerDisconnectedIntended"
RequestLimitExceeded == "RequestLimitExceeded"
SessionLimitExceeded == "SessionLimitExceeded"
NetworkError == "NetworkError"
TerminatedCodes == {"undefined", ServerDisconnectedIntended, NetworkError}
DiagnosticCodes == {SessionLimitExceeded, NetworkError}
\* The reason number the engine supplies with 'terminated'.
EngineReasons == {7}

\* ---------------------------------------------------------------- errors

\* The cause of an error: nothing, a GFNTerminationError (code, reason), or
\* some other thrown value.
NoCause == [kind |-> "undefined", code |-> "undefined", reason |-> 0]
GFNTerminationError(code, reason) ==
  [kind |-> "GFNTerminationError", code |-> code, reason |-> reason]
OtherCause == [kind |-> "other", code |-> "undefined", reason |-> 0]

Undefined == [name |-> "undefined", cause |-> NoCause]
UnsupportedProvider == [name |-> "UnsupportedProvider", cause |-> NoCause]
PopupBlocked == [name |-> "PopupBlocked", cause |-> NoCause]
ElementNotFound == [name |-> "ElementNotFound", cause |-> NoCause]
StreamTerminationError(cause) == [name |-> "StreamTerminationError", cause |-> cause]
\* initClient's catch clause returning what it caught.
GFNClientInitRethrown == [name |-> "Error", cause |-> NoCause]
\* initClient's catch clause: new GFNClientError("GFN client initialization
\* failed", {cause}).
GFNClientInitFailed == [name |-> "GFNClientError", cause |-> OtherCause]
TypeError == [name |-> "TypeError", cause |-> NoCause]

\* errors.is(value) with the default target: the value is an Error.
is(value) ==
  value.name \in {"UnsupportedProvider", "PopupBlocked", "ElementNotFound",
                  "StreamTerminationError", "GFNClientError", "TypeError"}

\* A value start returns that is no error.
Value(v) == [name |-> v, cause |-> NoCause]

\* ----------------------------------------------------------------- trace

Ev(type, state, error, sid) ==
  [type |-> type, state |-> state, error |-> error, sid |-> sid]

\* this.emit("streamStateUpdated", {state, error})
StreamStateUpdated(state, error) == Ev("streamStateUpdated", state, error, 0)
\* this.emit("error", error)
ErrorEvent(error) == Ev("error", "", error, 0)
\* a call of a driver function or of a browser function
Call(name) == Ev("call", name, Undefined, 0)
\* a call of a browser function, with what it returned
Returned(name, value) == Ev("call", name, value, 0)

VARIABLES
  pc,            \* per attempt: where its start call is
  opts,          \* per attempt: the StartOptions it was called with
  needsCleanup,  \* per attempt: the closure's flag
  trace,         \* per attempt: what it did, in order
  result,        \* per attempt: what start resolved with (or threw)
  client,        \* gfn/index.ts: the module-level driver instance (0: unset)
  instances,     \* number of GFNClient instances constructed
  GFN,           \* globalThis.GFN is defined (the engine script has run)
  scripts,       \* number of engine loader script elements in the document
  listeners,     \* the attempts whose callbacks the engine holds, in order
  engineEvents,  \* number of engine signals delivered
  lastSignal,    \* the engine signal delivered last
  engineStops,   \* number of GFN.streamer.stop() calls
  stopLog,       \* one record per StreamingClient.stop call
  tabClosed,     \* per attempt: the tab it opened has been closed
  timerActive,   \* per attempt: its window-close interval is set
  token,         \* SessionClient.token: "none", "string" or "function"
  sPc,           \* per session-client operation: the await it is parked at
  args,          \* per operation: the arguments it was called with
  session,       \* the `session` local of createSession / pollSession
  held,          \* per operation: the `token` local of its pending doFetch
  tokenCalls,    \* number of invocations of the token function
  requests,      \* the requests handed to this.fetch, in order
  answered,      \* per operation: how its create / delete request settled
  responses,     \* how the refreshSession calls settled, in order
  callbacks,     \* the states passed to onStateChange, in order
  events,        \* the sessionStateUpdated events emitted, in order
  waits,         \* number of poll-interval timers set
  logged,        \* per operation: the messages given to logger.error
  created,       \* what the createSession promise settled with
  settled,       \* per operation: what its promise settled with
  loggerOption,  \* ClientOptions.logger: "undefined" or the caller's logger
  logger,        \* SessionClient.logger: the logger its failures go to
  navigator,     \* the page's environment: parsed user agent, touch points
  compatCache,   \* compatibility.ts: compatCache, keyed by identity string
  support,       \* what the getBrowserSupport calls returned, in order
  given,         \* a function called on its own: the arguments it is given
  answer,        \* which function was called, and what it did
  later,         \* the setup call made while an earlier one is in flight
  abandoned,     \* what the earlier setup had done at each stop / later setup
  starts,        \* per call of GFNClient.start: the await it is parked at
  player,        \* GFNClient.player: the embed node it created last (0: unset)
  attached,      \* the embed nodes that are in the document
  nodes,         \* number of embed nodes created
  engineLog      \* the DOM and engine calls of GFNClient.start, in order

clientVars == <<pc, opts, needsCleanup, trace, result, client, instances, GFN,
                scripts, listeners, engineEvents, lastSignal, engineStops,
                stopLog, tabClosed, timerActive>>

sessionVars == <<token, sPc, args, session, held, tokenCalls, requests,
                 answered, responses, callbacks, events, waits, logged, created, settled>>

configVars == <<loggerOption, logger>>

compatVars == <<navigator, compatCache, support>>

errorVars == <<given, answer>>

lifecycleVars == <<later, abandoned>>

playerVars == <<starts, player, attached, nodes, engineLog>>

vars == <<clientVars, sessionVars, configVars, compatVars, errorVars, lifecycleVars,
          playerVars>>

\* What the actions of one part leave alone: the variables of the others.
exceptClient ==
  <<sessionVars, configVars, compatVars, errorVars, lifecycleVars, playerVars>>
exceptSession ==
  <<clientVars, configVars, compatVars, errorVars, lifecycleVars, playerVars>>
exceptBrowser ==
  <<clientVars, sessionVars, configVars, errorVars, lifecycleVars, playerVars>>
exceptPlayer ==
  <<clientVars, sessionVars, configVars, compatVars, errorVars, lifecycleVars>>
exceptLifecycle == <<configVars, compatVars, errorVars, playerVars>>
exceptTeardown == <<configVars, compatVars, errorVars, lifecycleVars, playerVars>>
exceptErrors ==
  <<clientVars, sessionVars, configVars, compatVars, lifecycleVars, playerVars>>

driverVars == <<client, instances, GFN, scripts, listeners, engineStops>>

NoOpts == [provider |-> GeforceNow, target |-> Window, container |-> "undefined",
           sessionId |-> 0]

\* The calls of GFNClient.start made on one driver instance.
DriverStarts == 1..MaxStarts

InitClient ==
  /\ starts = [d \in DriverStarts |-> "idle"]
  /\ player = 0
  /\ attached = {}
  /\ nodes = 0
  /\ engineLog = <<>>
  /\ pc = [a \in Callers |-> "idle"]
  /\ opts = [a \in Callers |-> NoOpts]
  /\ needsCleanup = [a \in Callers |-> TRUE]
  /\ trace = [a \in Callers |-> <<>>]
  /\ result = [a \in Callers |-> Value("pending")]
  /\ client = 0
  /\ instances = 0
  /\ GFN = FALSE
  /\ scripts = 0
  /\ listeners = <<>>
  /\ engineEvents = 0
  /\ lastSignal = [signal |-> "none", code |-> "undefined", reason |-> 0]
  /\ engineStops = 0
  /\ stopLog = <<>>
  /\ tabClosed = [a \in Callers |-> FALSE]
  /\ timerActive = [a \in Callers |-> FALSE]

\* ------------------------------------------------- StreamingClient.start

\* cleanup({projectId, worldId, sessionId, reason}): one deleteSession call
\* of the session client, for the given session.
cleanup(sid, reason) == <<Ev("deleteSession", "", reason, sid)>>

\* onTerminated with the cleanup before the events.
onTerminatedCleanupFirst(tr, nc, sid, error) ==
  [trace |-> tr \o (IF nc THEN cleanup(sid, error) ELSE <<>>)
                \o <<ErrorEvent(error), StreamStateUpdated("Terminated", error)>>,
   needsCleanup |-> IF nc THEN FALSE ELSE nc]

\* onTerminated with the flag never cleared.
onTerminatedFlagKept(tr, nc, sid, error) ==
  [trace |-> tr \o <<ErrorEvent(error), StreamStateUpdated("Terminated", error)>>
                \o (IF nc THEN cleanup(sid, error) ELSE <<>>),
   needsCleanup |-> nc]

\* The onTerminated closure of one start call, applied to the attempt's trace
\* and flag: the error event, the Terminated event, and the cleanup under the
\* needsCleanup flag.
onTerminated(tr, nc, sid, error) ==
  [trace |-> tr \o <<ErrorEvent(error), StreamStateUpdated("Terminated", error)>>
                \o (IF nc THEN cleanup(sid, error) ELSE <<>>),
   needsCleanup |-> IF nc THEN FALSE ELSE nc]

\* The provider test left out.
supportedAny(provider) == TRUE

\* The provider test that opens start.
supported(provider) == provider = GeforceNow

\* resolveContainer without the test of what querySelector returned.
resolveContainerUnchecked(container) == Value("element")

\* resolveContainer(container)
resolveContainer(container) ==
  IF container \in {"selector-hit", "selector-miss"}
    THEN IF container = "selector-miss" THEN ElementNotFound ELSE Value("element")
    ELSE Value("element")

\* open without the test of what globalThis.open returned.
openUnchecked(container, tab) ==
  IF container # "undefined"
    THEN [result |-> Value("window"), did |-> <<Call("location.href")>>,
          interval |-> FALSE]
    ELSE [result |-> Value("tab"),
          did |-> <<Returned("globalThis.open", Value(tab)), Call("setInterval")>>,
          interval |-> TRUE]

\* StreamingClient.open({container, href, target}): what it returns, what it
\* calls, and whether it sets the window-close interval.
open(container, tab) ==
  IF container # "undefined"
    THEN [result |-> Value("window"), did |-> <<Call("location.href")>>,
          interval |-> FALSE]
    ELSE IF tab = "null"
      THEN [result |-> PopupBlocked,
            did |-> <<Returned("globalThis.open", Value(tab))>>,
            interval |-> FALSE]
      ELSE [result |-> Value("tab"),
            did |-> <<Returned("globalThis.open", Value(tab)), Call("setInterval")>>,
            interval |-> TRUE]

\* start with a provider other than GeforceNow.
StartUnsupported(a, o) ==
  /\ pc' = [pc EXCEPT ![a] = "done"]
  /\ result' = [result EXCEPT ![a] = UnsupportedProvider]
  /\ UNCHANGED <<needsCleanup, trace, driverVars, timerActive>>

\* start, case StreamTarget.Window.
StartWindow(a, o, tab) ==
  LET loading == <<StreamStateUpdated("Loading", Undefined)>>
      opened == open(o.container, tab)
      t == onTerminated(loading \o opened.did, TRUE, o.sessionId, opened.result)
  IN /\ pc' = [pc EXCEPT ![a] = "done"]
     /\ result' = [result EXCEPT ![a] = opened.result]
     /\ timerActive' = [timerActive EXCEPT ![a] = opened.interval]
     /\ IF is(opened.result)
          THEN /\ trace' = [trace EXCEPT ![a] = t.trace]
               /\ needsCleanup' = [needsCleanup EXCEPT ![a] = t.needsCleanup]
          ELSE /\ trace' = [trace EXCEPT ![a] =
                   loading \o opened.did
                     \o <<StreamStateUpdated("Streaming", Undefined)>>]
               /\ UNCHANGED needsCleanup
     /\ UNCHANGED driverVars

\* start, case StreamTarget.Embedded, up to its first await: the container is
\* resolved, and getOrInitClient runs up to its own first await (it returns
\* the module's client, or initClient starts loading the engine).
StartEmbedded(a, o) ==
  LET loading == <<StreamStateUpdated("Loading", Undefined)>>
      element == resolveContainer(o.container)
      t == onTerminated(loading, TRUE, o.sessionId, element)
  IN IF is(element)
       THEN /\ trace' = [trace EXCEPT ![a] = t.trace]
            /\ needsCleanup' = [needsCleanup EXCEPT ![a] = t.needsCleanup]
            /\ result' = [result EXCEPT ![a] = element]
            /\ pc' = [pc EXCEPT ![a] = "done"]
            /\ UNCHANGED <<driverVars, timerActive>>
       ELSE /\ UNCHANGED <<needsCleanup, result, timerActive, client, instances,
                           GFN, listeners, engineStops>>
            /\ IF client # 0
                 THEN /\ trace' = [trace EXCEPT ![a] =
                            loading \o <<Call("getOrInitClient")>>]
                      /\ pc' = [pc EXCEPT ![a] = "gotClient"]
                      /\ UNCHANGED scripts
                 ELSE IF ~GFN
                   THEN /\ trace' = [trace EXCEPT ![a] =
                              loading \o <<Call("getOrInitClient"), Call("initClient"),
                                           Call("script")>>]
                        /\ scripts' = scripts + 1
                        /\ pc' = [pc EXCEPT ![a] = "awaitLoad"]
                   ELSE /\ trace' = [trace EXCEPT ![a] =
                              loading \o <<Call("getOrInitClient"), Call("initClient")>>]
                        /\ pc' = [pc EXCEPT ![a] = "loaded"]
                        /\ UNCHANGED scripts

\* A call of StreamingClient.start. Attempts are numbered in call order.
Start(a) ==
  /\ pc[a] = "idle"
  /\ a > 1 => pc[a - 1] # "idle"
  /\ \E provider \in StreamProvider, target \in {Window, Embedded},
        tab \in OpenResults :
       \E container \in (IF target = Window THEN WindowContainers
                                            ELSE EmbeddedContainers) :
         LET o == [provider |-> provider, target |-> target,
                   container |-> container, sessionId |-> SessionId(a)]
         IN /\ opts' = [opts EXCEPT ![a] = o]
            /\ IF ~supported(provider) THEN StartUnsupported(a, o)
               ELSE IF target = Window THEN StartWindow(a, o, tab)
               ELSE StartEmbedded(a, o)
  /\ UNCHANGED <<engineEvents, lastSignal, stopLog, tabClosed>>

\* ------------------------------------------------ gfn/index.ts initClient

\* The attempt's start ends because driver acquisition returned an error:
\* onTerminated(gfnClient); return gfnClient.
AcquisitionFailed(a, error) ==
  LET t == onTerminated(trace[a], needsCleanup[a], opts[a].sessionId, error)
  IN /\ trace' = [trace EXCEPT ![a] = t.trace]
     /\ needsCleanup' = [needsCleanup EXCEPT ![a] = t.needsCleanup]
     /\ result' = [result EXCEPT ![a] = error]
     /\ pc' = [pc EXCEPT ![a] = "done"]

\* The load event of the script element that loadGFNOnce appended: the engine
\* script has run, and the promise initClient awaits resolves.
ScriptLoaded(a) ==
  /\ pc[a] = "awaitLoad"
  /\ GFN' = TRUE
  /\ pc' = [pc EXCEPT ![a] = "loaded"]
  /\ UNCHANGED <<opts, needsCleanup, trace, result, client, instances, scripts,
                 listeners, engineEvents, lastSignal, engineStops, stopLog, tabClosed,
                 timerActive>>

\* initClient after await loadGFNOnce(): it calls GFN.initialize.
Initialize(a) ==
  /\ pc[a] = "loaded"
  /\ trace' = [trace EXCEPT ![a] = Append(@, Call("GFN.initialize"))]
  /\ pc' = [pc EXCEPT ![a] = "awaitInitialize"]
  /\ UNCHANGED <<opts, needsCleanup, result, driverVars, engineEvents, lastSignal, stopLog,
                 tabClosed, timerActive>>

\* GFN.initialize settles: resolved, initClient asks for the server info;
\* rejected, initClient returns a GFNClientError and leaves client unset.
InitializeSettled(a) ==
  /\ pc[a] = "awaitInitialize"
  /\ \E ok \in BOOLEAN :
       IF ok
         THEN /\ trace' = [trace EXCEPT ![a] = Append(@, Call("getServerInfo"))]
              /\ pc' = [pc EXCEPT ![a] = "awaitServerInfo"]
              /\ UNCHANGED <<needsCleanup, result>>
         ELSE AcquisitionFailed(a, GFNClientInitFailed)
  /\ UNCHANGED <<opts, driverVars, engineEvents, lastSignal, stopLog, tabClosed, timerActive>>

\* GFN.server.getServerInfo settles: resolved, initClient constructs the
\* GFNClient and assigns it to the module's client; rejected, as above.
ServerInfoSettled(a) ==
  /\ pc[a] = "awaitServerInfo"
  /\ \E ok \in BOOLEAN :
       IF ok
         THEN /\ instances' = instances + 1
              /\ client' = instances + 1
              /\ pc' = [pc EXCEPT ![a] = "gotClient"]
              /\ UNCHANGED <<needsCleanup, result, trace>>
         ELSE /\ AcquisitionFailed(a, GFNClientInitFailed)
              /\ UNCHANGED <<client, instances>>
  /\ UNCHANGED <<opts, GFN, scripts, listeners, engineStops, engineEvents, lastSignal,
                 stopLog, tabClosed, timerActive>>

\* ------------------------------------------------ GFNClient.start, listen

\* The auth argument of the call gfnClient.start(element) in
\* StreamingClient.start: the call passes the container alone.
StartAuthArgument == "undefined"

\* GFNClient.start(container, auth) up to its first await: the arguments of
\* loginWithNonce, auth.nonce and auth.cmsId, are read from auth, which throws
\* a TypeError when auth is undefined; start is async, so the throw rejects
\* the promise it returns. With an auth it awaits the login.
GFNClientStart(auth) ==
  IF auth = "undefined" THEN TypeError ELSE Value("awaitLogin")

\* start after await getOrInitClient() returned a client: it registers its
\* callbacks with listen and calls the driver's start.
ListenAndStart(a) ==
  /\ pc[a] = "gotClient"
  /\ listeners' = Append(listeners, a)
  /\ trace' = [trace EXCEPT ![a] = @ \o <<Call("listen"), Call("GFNClient.start")>>]
  /\ pc' = [pc EXCEPT ![a] = "awaitStart"]
  /\ UNCHANGED <<opts, needsCleanup, result, client, instances, GFN, scripts,
                 engineStops, engineEvents, lastSignal, stopLog, tabClosed, timerActive>>

\* await gfnClient.start(element) throws what the driver's start threw: no
\* handler of StreamingClient.start catches it, and start's promise rejects.
DriverStartThrew(a) ==
  /\ pc[a] = "awaitStart"
  /\ is(GFNClientStart(StartAuthArgument))
  /\ result' = [result EXCEPT ![a] = GFNClientStart(StartAuthArgument)]
  /\ pc' = [pc EXCEPT ![a] = "rejected"]
  /\ UNCHANGED <<opts, needsCleanup, trace, driverVars, engineEvents, lastSignal,
                 stopLog, tabClosed, timerActive>>

\* listen passing every diagnostic on to onTerminated.
listenEveryDiagnostic(signal, code, reason) ==
  CASE signal = "started" -> [cb |-> "onStarted", cause |-> NoCause]
    [] signal = "diagnostic" ->
         [cb |-> "onTerminated", cause |-> GFNTerminationError(code, -1)]
    [] signal = "terminated" ->
         IF code \in {ServerDisconnectedIntended, "undefined"}
           THEN [cb |-> "onTerminated", cause |-> NoCause]
           ELSE [cb |-> "onTerminated", cause |-> GFNTerminationError(code, reason)]

\* GFNClient.listen: the callback an engine signal invokes, and with what.
listen(signal, code, reason) ==
  CASE signal = "started" -> [cb |-> "onStarted", cause |-> NoCause]
    [] signal = "diagnostic" ->
         IF code \in {RequestLimitExceeded, SessionLimitExceeded}
           THEN [cb |-> "onTerminated", cause |-> GFNTerminationError(code, -1)]
           ELSE [cb |-> "none", cause |-> NoCause]
    [] signal = "terminated" ->
         IF code \in {ServerDisconnectedIntended, "undefined"}
           THEN [cb |-> "onTerminated", cause |-> NoCause]
           ELSE [cb |-> "onTerminated", cause |-> GFNTerminationError(code, reason)]

\* start between its two awaits without the removal of the previous player.
attachOnly(p, att, n) ==
  [player |-> n + 1, attached |-> att \cup {n + 1}, nodes |-> n + 1,
   did |-> <<Call("append")>>]

\* GFNClient.start between its two awaits, given this.player, the nodes in
\* the document and the number of nodes created: the previous player is
\* removed and the engine cancelled, then a new player is created and
\* appended to the container.
attach(p, att, n) ==
  [player |-> n + 1,
   attached |-> (IF p # 0 THEN att \ {p} ELSE att) \cup {n + 1},
   nodes |-> n + 1,
   did |-> (IF p # 0 THEN <<Call("remove"), Call("GFN.streamer.cancel")>> ELSE <<>>)
             \o <<Call("append")>>]

\* What a caller gives GFNClient.start as auth.
AuthArguments == {"undefined", "auth"}

\* GFNClient.start(container, auth) is called on the instance.
DriverStart(d) ==
  /\ starts[d] = "idle"
  /\ \E auth \in AuthArguments :
       starts' = [starts EXCEPT ![d] =
                    IF is(GFNClientStart(auth)) THEN "rejected"
                    ELSE GFNClientStart(auth).name]
  /\ UNCHANGED <<player, attached, nodes, engineLog>>

\* loginWithNonce settles. Rejected, or resolved without a guest user token
\* (the invariant throws), start rejects; otherwise start replaces the
\* player and calls GFN.streamer.start.
LoginSettled(d) ==
  /\ starts[d] = "awaitLogin"
  /\ \E ok \in BOOLEAN, idToken \in BOOLEAN :
       IF ok /\ idToken
       THEN LET r == attach(player, attached, nodes)
            IN /\ player' = r.player
               /\ attached' = r.attached
               /\ nodes' = r.nodes
               /\ engineLog' = engineLog \o r.did \o <<Call("GFN.streamer.start")>>
               /\ starts' = [starts EXCEPT ![d] = "awaitStreamer"]
       ELSE /\ starts' = [starts EXCEPT ![d] = "rejected"]
            /\ UNCHANGED <<player, attached, nodes, engineLog>>

\* GFN.streamer.start settles: start returns undefined, or a GFNClientError
\* wrapping what the engine threw.
StreamerStartSettled(d) ==
  /\ starts[d] = "awaitStreamer"
  /\ \E ok \in BOOLEAN :
       starts' = [starts EXCEPT ![d] = IF ok THEN "undefined" ELSE "GFNClientError"]
  /\ UNCHANGED <<player, attached, nodes, engineLog>>

\* The callbacks start hands to listen, applied to the attempt's trace and
\* flag: onStarted emits Streaming; onTerminated(cause) calls the closure
\* with a new StreamTerminationError whose cause is the given one.
callback(a, l) ==
  CASE l.cb = "onStarted" ->
         [trace |-> Append(trace[a], StreamStateUpdated("Streaming", Undefined)),
          needsCleanup |-> needsCleanup[a]]
    [] l.cb = "onTerminated" ->
         onTerminated(trace[a], needsCleanup[a], opts[a].sessionId,
                      StreamTerminationError(l.cause))
    [] OTHER -> [trace |-> trace[a], needsCleanup |-> needsCleanup[a]]

Listening(a) == \E i \in 1..Len(listeners) : listeners[i] = a

\* The engine delivers one signal: every registered callback runs. An attempt
\* registers once, and a callback touches its own attempt only.
EngineSignal ==
  /\ engineEvents < MaxEngineEvents
  /\ Len(listeners) > 0
  /\ \E signal \in {"started", "diagnostic", "terminated"} :
       \E code \in (CASE signal = "started" -> {"undefined"}
                      [] signal = "diagnostic" -> DiagnosticCodes
                      [] signal = "terminated" -> TerminatedCodes),
          reason \in EngineReasons :
         LET l == listen(signal, code, reason)
         IN /\ trace' = [a \in Callers |->
                           IF Listening(a) THEN callback(a, l).trace ELSE trace[a]]
            /\ needsCleanup' = [a \in Callers |->
                           IF Listening(a) THEN callback(a, l).needsCleanup
                                           ELSE needsCleanup[a]]
            /\ lastSignal' = [signal |-> signal, code |-> code, reason |-> reason]
  /\ engineEvents' = engineEvents + 1
  /\ UNCHANGED <<pc, opts, result, driverVars, stopLog, tabClosed, timerActive>>

\* --------------------------------------------------- StreamingClient.stop

\* getClient()
getClient == IF client # 0 THEN "GFNClient" ELSE "GFNClientNotInitialized"

\* stop without the test for GFNClientNotInitialized.
stopUnguarded(c) == [returned |-> "undefined", forwarded |-> 1]

\* stop(), given what getClient returned: what it returns and how many stop
\* calls it forwards to the engine.
stop(c) ==
  IF c = "GFNClientNotInitialized"
    THEN [returned |-> "undefined", forwarded |-> 0]
    ELSE [returned |-> "undefined", forwarded |-> 1]

Stop ==
  /\ Len(stopLog) < MaxStops
  /\ stopLog' = Append(stopLog, [client |-> getClient,
                                 returned |-> stop(getClient).returned])
  /\ engineStops' = engineStops + stop(getClient).forwarded
  /\ UNCHANGED <<pc, opts, needsCleanup, trace, result, client, instances, GFN,
                 scripts, listeners, engineEvents, lastSignal, tabClosed, timerActive>>

\* ------------------------------------------- the window-close interval

\* The user closes the tab that start opened.
CloseTab(a) ==
  /\ result[a] = Value("tab")
  /\ ~tabClosed[a]
  /\ tabClosed' = [tabClosed EXCEPT ![a] = TRUE]
  /\ UNCHANGED <<pc, opts, needsCleanup, trace, result, driverVars,
                 engineEvents, lastSignal, stopLog, timerActive>>

\* The interval callback without clearInterval.
intervalNeverCleared(closed) ==
  IF closed
    THEN [did |-> <<StreamStateUpdated("Terminated", Undefined)>>, active |-> TRUE]
    ELSE [did |-> <<>>, active |-> TRUE]

\* The interval callback of open, given tab.closed: what it emits and
\* whether it clears the interval.
interval(closed) ==
  IF closed
    THEN [did |-> <<Call("clearInterval"),
                    StreamStateUpdated("Terminated", Undefined)>>,
          active |-> FALSE]
    ELSE [did |-> <<>>, active |-> TRUE]

\* The interval fires.
IntervalTick(a) ==
  /\ timerActive[a]
  /\ trace' = [trace EXCEPT ![a] = @ \o interval(tabClosed[a]).did]
  /\ timerActive' = [timerActive EXCEPT ![a] = interval(tabClosed[a]).active]
  /\ UNCHANGED <<pc, opts, needsCleanup, result, driverVars, engineEvents, lastSignal,
                 stopLog, tabClosed>>

\* -------------------------------------------- session client (part_004)

\* The number of refreshSession calls one createSession call may make.
MaxRefreshes == 3

\* The operations of the StreamingClient that use the session client.
Ops == {"setup", "cleanup"}

\* How the session client's token option is configured.
Tokens == {"none", "string", "function"}

SESSION_POLL_INTERVAL_MILLIS == 5000

Queued == "QUEUED"
Admitted == "ADMITTED"
Ready == "READY"
Pending == "PENDING"
Active == "ACTIVE"
Replaced == "REPLACED"
Expired == "EXPIRED"
Failed == "FAILED"
Deleted == "DELETED"
SessionState == {Queued, Admitted, Ready, Pending, Active,
                 Replaced, Expired, Failed, Deleted}
WaitingStates == {Queued, Admitted}
TerminalStates == {Replaced, Expired, Failed, Deleted}

\* A Session; NoSession stands for undefined.
Session(sessionId, state, providerConfig) ==
  [kind |-> "session", sessionId |-> sessionId, state |-> state,
   providerConfig |-> providerConfig]
NoSession == [kind |-> "undefined", sessionId |-> "", state |-> "",
              providerConfig |-> "undefined"]

\* The sessions the server answers with: a providerConfig comes with Active.
ProviderConfigs(state) ==
  IF state = Active THEN {"undefined", "geforce"} ELSE {"undefined"}
ServerSessions ==
  UNION {{Session("s1", s, c) : c \in ProviderConfigs(s)} : s \in SessionState}

\* How a call of this.fetch settles: the promise rejects, the response is
\* not ok, or the response is ok and its JSON body is a session.
Rejected == [kind |-> "rejected", session |-> NoSession]
NotOk == [kind |-> "notok", session |-> NoSession]
Ok(s) == [kind |-> "ok", session |-> s]
\* doFetch rejected before any request was sent: the token function failed.
TokenRejected == [kind |-> "token", session |-> NoSession]
FetchOutcomes == {Rejected, NotOk} \cup {Ok(s) : s \in ServerSessions}
\* The body of a delete response is not read.
DeleteOutcomes == {Rejected, NotOk, Ok(NoSession)}
Unanswered == [kind |-> "none", session |-> NoSession]

\* A settled or pending promise of createSession / deleteSession.
Resolved(value) == [status |-> "resolved", value |-> value]
Threw(value) == [status |-> "rejected", value |-> value]
Unsettled == [status |-> "pending", value |-> NoSession]

\* What setup and cleanup settle with: a StartStreamConfig or undefined.
StartStreamConfig(streamId, projectId, worldId, sessionId, config) ==
  [kind |-> "config", streamId |-> streamId, projectId |-> projectId,
   worldId |-> worldId, sessionId |-> sessionId, config |-> config]
NoConfig == [kind |-> "undefined", streamId |-> "", projectId |-> "",
             worldId |-> "", sessionId |-> "", config |-> "undefined"]
UnsettledOp == [status |-> "pending", value |-> NoConfig]

\* The arguments of setup: worldId may be missing or empty.
WorldIds == {"undefined", "", "world"}
uuidv7 == "uuid"
NoArgs == [projectId |-> "", worldId |-> "undefined", streamId |-> "",
           sessionId |-> ""]

\* Where an operation is parked: at the await of the token function, of
\* this.fetch, of the poll timer; before its call; after it settled.
Parked(at, method) == [at |-> at, method |-> method]

\* A request handed to this.fetch: who sent it, its method, the session in
\* its path, the streamId in its body, and its Authorization header (n is
\* the invocation of the token function whose result it carries).
Request(op, method, sessionId, streamId, authorized, n) ==
  [op |-> op, method |-> method, sessionId |-> sessionId,
   streamId |-> streamId, authorized |-> authorized, n |-> n]

\* ClientOptions.logger: left out, or a logger of the caller's.
Loggers == {"undefined", "custom"}

\* StreamingClient's constructor: this.logger = opts.logger ?? console.
StreamingClientLogger(option) == IF option = "undefined" THEN "console" ELSE option

\* The logger option among the options StreamingClient's constructor builds
\* for the SessionClient: host, protocol, fetch and the fields of opts.auth.
SessionClientOptionsLogger(option) == "undefined"

\* SessionClient's constructor: this.logger = opts.logger ?? console.
SessionClientLogger(option) == IF option = "undefined" THEN "console" ELSE option

InitLogger(option) ==
  /\ loggerOption = option
  /\ logger = SessionClientLogger(SessionClientOptionsLogger(option))

\* The setup call made later, before it is made.
NoLater == [at |-> "idle", held |-> 0, logged |-> <<>>, settled |-> UnsettledOp]

InitSessionClient(tk) ==
  /\ later = NoLater
  /\ abandoned = <<>>
  /\ token = tk
  /\ sPc = [op \in Ops |-> Parked("idle", "none")]
  /\ args = [op \in Ops |-> NoArgs]
  /\ session = NoSession
  /\ held = [op \in Ops |-> 0]
  /\ tokenCalls = 0
  /\ requests = <<>>
  /\ answered = [op \in Ops |-> Unanswered]
  /\ responses = <<>>
  /\ callbacks = <<>>
  /\ events = <<>>
  /\ waits = <<>>
  /\ logged = [op \in Ops |-> <<>>]
  /\ created = Unsettled
  /\ settled = [op \in Ops |-> UnsettledOp]

\* ------------------------------------------------------------- doFetch

\* doFetch with the token function never invoked.
invokesTokenNever(hasAuthorization, tk) == FALSE

\* doFetch awaits this.token() when the headers it was given carry no
\* Authorization and the configured token is a function.
invokesToken(hasAuthorization, tk) == ~hasAuthorization /\ tk = "function"

\* doFetch called by an operation: it either parks at the token function or
\* hands the request to this.fetch at once. No caller sets Authorization.
doFetch(op, method, sessionId, streamId) ==
  IF invokesToken(FALSE, token)
  THEN /\ tokenCalls' = tokenCalls + 1
       /\ held' = [held EXCEPT ![op] = tokenCalls + 1]
       /\ sPc' = [sPc EXCEPT ![op] = Parked("token", method)]
       /\ UNCHANGED requests
  ELSE /\ requests' = Append(requests, Request(op, method, sessionId, streamId,
                                               token # "none", 0))
       /\ sPc' = [sPc EXCEPT ![op] = Parked("fetch", method)]
       /\ UNCHANGED <<tokenCalls, held>>

\* ------------------------------------------- logging and catch clauses

\* logger.error in the catch clause of the function making the request
caught(method) ==
  IF method = "create" THEN "Failed to make fetch session config request:"
  ELSE "Failed to make refresh session request:"

\* logger.error for a response that is not ok
notOk(method) ==
  CASE method = "create" -> "Failed to fetch session config:"
    [] method = "refresh" -> "Failed to refresh session:"
    [] method = "delete" -> "Failed to delete session:"

\* logger.error calls of a request that settled with the outcome
errors(method, outcome) ==
  CASE outcome.kind = "ok" -> <<>>
    [] outcome.kind = "notok" -> <<notOk(method)>>
    [] OTHER -> <<caught(method)>>

\* createSession's catch clause rethrowing.
createSessionRethrows == Threw(NoSession)

\* createSession's catch clause: log and return undefined.
createSessionCatch == Resolved(NoSession)

\* deleteSession's catch clause rethrowing.
deleteSessionRethrows == Threw(NoSession)

\* deleteSession's catch clause: log and return undefined.
deleteSessionCatch == Resolved(NoSession)

\* deleteSession's promise after its request settled.
deleteSession(outcome) ==
  IF outcome.kind \in {"rejected", "token"} THEN deleteSessionCatch
  ELSE Resolved(NoSession)

\* refreshSession's return value after its request settled.
refreshSession(outcome) ==
  IF outcome.kind = "ok" THEN outcome.session ELSE NoSession

\* ----------------------------------------- createSession, pollSession

\* createSession polling whatever worldId it was given.
shouldPollAnyWorld(worldId, state) == state \in {Queued, Ready}

\* createSession enters pollSession: a truthy worldId and a create response
\* in state Queued or Ready.
shouldPoll(worldId, state) ==
  /\ worldId \notin {"undefined", ""}
  /\ state \in {Queued, Ready}

\* The loop condition with every state polled again.
continuesAlways(s) == TRUE

\* The loop condition with a test that ends the loop of a lifecycle that
\* was stopped or followed by another setup.
continuesUnlessAbandoned(s) ==
  /\ abandoned = <<>>
  /\ \/ s.kind = "undefined"
     \/ s.state \in {Queued, Admitted, Pending, Ready}

\* The loop condition of pollSession.
continues(s) ==
  \/ s.kind = "undefined"
  \/ s.state \in {Queued, Admitted, Pending, Ready}

\* One pass of the loop with onStateChange called for every state.
pollStepNotifying(s) ==
  IF s.kind = "undefined" THEN [notify |-> <<>>, next |-> "return"]
  ELSE IF s.state = Active THEN [notify |-> <<s.state>>, next |-> "return"]
  ELSE [notify |-> <<s.state>>, next |-> "wait"]

\* One pass of the loop with a failed refresh waited on and retried.
pollStepRetrying(s) ==
  IF s.kind = "undefined" THEN [notify |-> <<>>, next |-> "wait"]
  ELSE IF s.state = Active THEN [notify |-> <<s.state>>, next |-> "return"]
  ELSE [notify |-> <<>>, next |-> "wait"]

\* One pass of the loop after refreshSession returned s: the states given
\* to onStateChange, and whether pollSession returns s or sets the timer.
pollStep(s) ==
  IF s.kind = "undefined" THEN [notify |-> <<>>, next |-> "return"]
  ELSE IF s.state = Active THEN [notify |-> <<s.state>>, next |-> "return"]
  ELSE [notify |-> <<>>, next |-> "wait"]

\* -------------------------------------- StreamingClient.setup, cleanup

\* The onStateChange closure of setup emitting nothing of the state.
onStateChangeBlind(state) == Ev("sessionStateUpdated", "", Undefined, 0)

\* The onStateChange closure setup gives to createSession.
onStateChange(state) == Ev("sessionStateUpdated", state, Undefined, 0)

\* setup returning a configuration whatever createSession produced.
setupAlways(a, c) ==
  Resolved(StartStreamConfig(a.streamId, a.projectId, a.worldId,
                             c.value.sessionId, c.value.providerConfig))

\* setup after the createSession promise settled with c.
setup(a, c) ==
  IF c.status = "rejected" THEN Threw(NoConfig)
  ELSE IF c.value.kind = "undefined" THEN Resolved(NoConfig)
  ELSE Resolved(StartStreamConfig(a.streamId, a.projectId, a.worldId,
                                  c.value.sessionId, c.value.providerConfig))

\* cleanup after the deleteSession promise settled with d.
cleanupSettles(d) ==
  IF d.status = "rejected" THEN Threw(NoConfig) ELSE Resolved(NoConfig)

\* onStateChange called by the session client with each of the states.
Notify(states) ==
  /\ callbacks' = callbacks \o states
  /\ events' = events \o [i \in 1..Len(states) |-> onStateChange(states[i])]

\* createSession settles with c, and setup after it.
SetupSettles(c) ==
  /\ created' = c
  /\ settled' = [settled EXCEPT !["setup"] = setup(args["setup"], c)]
  /\ sPc' = [sPc EXCEPT !["setup"] = Parked("done", "none")]

\* setup({projectId, worldId}) is called.
Setup(worldId) ==
  /\ sPc["setup"].at = "idle"
  /\ args' = [args EXCEPT !["setup"] =
                [projectId |-> "project", worldId |-> worldId,
                 streamId |-> uuidv7, sessionId |-> ""]]
  /\ doFetch("setup", "create", "", uuidv7)
  /\ UNCHANGED <<token, session, answered, responses, callbacks, events, waits,
                 logged, created, settled>>

\* cleanup({projectId, worldId, sessionId}) is called.
Cleanup ==
  /\ sPc["cleanup"].at = "idle"
  /\ args' = [args EXCEPT !["cleanup"] =
                [projectId |-> "project", worldId |-> "world",
                 streamId |-> "", sessionId |-> "s1"]]
  /\ doFetch("cleanup", "delete", "s1", "")
  /\ UNCHANGED <<token, session, answered, responses, callbacks, events, waits,
                 logged, created, settled>>

\* pollSession after refreshSession settled with the outcome.
Polled(outcome) ==
  LET s == refreshSession(outcome)
      step == pollStep(s)
  IN /\ responses' = Append(responses, outcome)
     /\ logged' = [logged EXCEPT !["setup"] = @ \o errors("refresh", outcome)]
     /\ session' = s
     /\ Notify(step.notify)
     /\ IF step.next = "wait"
        THEN /\ waits' = Append(waits, SESSION_POLL_INTERVAL_MILLIS)
             /\ sPc' = [sPc EXCEPT !["setup"] = Parked("timer", "none")]
             /\ UNCHANGED <<created, settled>>
        ELSE /\ SetupSettles(Resolved(s))
             /\ UNCHANGED waits

\* The token function of a pending doFetch settles: the request is sent, or
\* the rejection reaches the caller's catch clause.
TokenSettled(op) ==
  /\ sPc[op].at = "token"
  /\ held' = [held EXCEPT ![op] = 0]
  /\ UNCHANGED <<token, args, tokenCalls>>
  /\ LET method == sPc[op].method
     IN \/ /\ requests' = Append(requests,
                            Request(op, method, args[op].sessionId,
                                    IF method = "create" THEN args[op].streamId
                                    ELSE "", TRUE, held[op]))
           /\ sPc' = [sPc EXCEPT ![op] = Parked("fetch", method)]
           /\ UNCHANGED <<session, answered, responses, callbacks, events, waits,
                          logged, created, settled>>
        \/ /\ method = "create"
           /\ logged' = [logged EXCEPT ![op] = @ \o errors(method, TokenRejected)]
           /\ answered' = [answered EXCEPT ![op] = TokenRejected]
           /\ SetupSettles(createSessionCatch)
           /\ UNCHANGED <<session, requests, responses, callbacks, events, waits>>
        \/ /\ method = "refresh"
           /\ Polled(TokenRejected)
           /\ UNCHANGED <<requests, answered>>
        \/ /\ method = "delete"
           /\ logged' = [logged EXCEPT ![op] = @ \o errors(method, TokenRejected)]
           /\ answered' = [answered EXCEPT ![op] = TokenRejected]
           /\ settled' = [settled EXCEPT ![op] =
                            cleanupSettles(deleteSession(TokenRejected))]
           /\ sPc' = [sPc EXCEPT ![op] = Parked("done", "none")]
           /\ UNCHANGED <<session, requests, responses, callbacks, events, waits,
                          created>>

\* The create request settles.
CreateSettled(outcome) ==
  /\ sPc["setup"] = Parked("fetch", "create")
  /\ answered' = [answered EXCEPT !["setup"] = outcome]
  /\ logged' = [logged EXCEPT !["setup"] = @ \o errors("create", outcome)]
  /\ UNCHANGED <<token, responses, waits>>
  /\ IF outcome.kind = "ok" /\ shouldPoll(args["setup"].worldId, outcome.session.state)
     THEN /\ Notify(<<outcome.session.state>>)
          /\ session' = NoSession
          /\ args' = [args EXCEPT !["setup"].sessionId = outcome.session.sessionId]
          /\ doFetch("setup", "refresh", outcome.session.sessionId, "")
          /\ UNCHANGED <<created, settled>>
     ELSE /\ session' = outcome.session
          /\ SetupSettles(CASE outcome.kind = "ok" -> Resolved(outcome.session)
                            [] outcome.kind = "notok" -> Resolved(NoSession)
                            [] OTHER -> createSessionCatch)
          /\ UNCHANGED <<args, held, tokenCalls, requests, callbacks, events>>

\* A refresh request settles.
RefreshSettled(outcome) ==
  /\ sPc["setup"] = Parked("fetch", "refresh")
  /\ Polled(outcome)
  /\ UNCHANGED <<token, args, held, tokenCalls, requests, answered>>

\* The poll timer fires: the loop condition is tested on the session.
WaitElapsed ==
  /\ sPc["setup"].at = "timer"
  /\ UNCHANGED <<token, args, session, answered, responses, callbacks, events,
                 waits, logged>>
  /\ IF continues(session)
     THEN /\ Len(responses) < MaxRefreshes
          /\ doFetch("setup", "refresh", args["setup"].sessionId, "")
          /\ UNCHANGED <<created, settled>>
     ELSE /\ SetupSettles(Resolved(session))
          /\ UNCHANGED <<held, tokenCalls, requests>>

\* The delete request settles.
DeleteSettled(outcome) ==
  /\ sPc["cleanup"] = Parked("fetch", "delete")
  /\ answered' = [answered EXCEPT !["cleanup"] = outcome]
  /\ logged' = [logged EXCEPT !["cleanup"] = @ \o errors("delete", outcome)]
  /\ settled' = [settled EXCEPT !["cleanup"] = cleanupSettles(deleteSession(outcome))]
  /\ sPc' = [sPc EXCEPT !["cleanup"] = Parked("done", "none")]
  /\ UNCHANGED <<token, args, session, held, tokenCalls, requests, responses,
                 callbacks, events, waits, created>>

\* ------------------------------- stop and a later setup during a setup

\* What the setup in flight has done so far: its requests and its events.
Marker(by) == [by |-> by, requests |-> Len(requests), events |-> Len(events)]

\* uuidv7() of the later setup call: another identifier.
laterStreamId == "uuid-2"

\* The worldId the later setup call is made with.
laterWorldId == ""

\* The first stop and the later setup leave a marker each.
Marked(by) == \E i \in 1..Len(abandoned) : abandoned[i].by = by

\* How the requests made around a stop or a later setup settle: rejected,
\* not ok, or ok with a session still waiting, active or failed.
LifecycleOutcomes ==
  {Rejected, NotOk, Ok(Session("s1", Queued, "undefined")),
   Ok(Session("s1", Active, "geforce")), Ok(Session("s1", Failed, "undefined"))}

\* StreamingClient.stop is called: it asks gfn/index.ts for the driver and
\* stops it when there is one; nothing of the session client is touched.
StopDuringSetup ==
  /\ sPc["setup"].at \notin {"idle", "done"}
  /\ Stop
  /\ abandoned' = IF Marked("stop") THEN abandoned
                  ELSE Append(abandoned, Marker("stop"))
  /\ UNCHANGED <<sessionVars, later>>

\* setup({projectId, worldId: ""}) is called while an earlier setup call is
\* in flight: createSession's doFetch for its own streamId.
SetupAgain ==
  /\ later.at = "idle"
  /\ sPc["setup"].at \notin {"idle", "done"}
  /\ abandoned' = Append(abandoned, Marker("setup"))
  /\ IF invokesToken(FALSE, token)
     THEN /\ tokenCalls' = tokenCalls + 1
          /\ later' = [later EXCEPT !.at = "token", !.held = tokenCalls + 1]
          /\ UNCHANGED requests
     ELSE /\ requests' = Append(requests, Request("later", "create", "", laterStreamId,
                                                  token # "none", 0))
          /\ later' = [later EXCEPT !.at = "fetch"]
          /\ UNCHANGED tokenCalls
  /\ UNCHANGED <<token, sPc, args, session, held, answered, responses, callbacks,
                 events, waits, logged, created, settled, clientVars>>

\* The later setup after its createSession settled with the outcome: no
\* world, so no poll loop; it resolves with what the create request gave.
LaterSettles(outcome) ==
  LET a == [projectId |-> "project", worldId |-> laterWorldId,
            streamId |-> laterStreamId, sessionId |-> ""]
      c == CASE outcome.kind = "ok" -> Resolved(outcome.session)
             [] outcome.kind = "notok" -> Resolved(NoSession)
             [] OTHER -> createSessionCatch
  IN /\ ~(outcome.kind = "ok" /\ shouldPoll(laterWorldId, outcome.session.state))
     /\ later' = [later EXCEPT !.at = "done", !.held = 0,
                               !.logged = @ \o errors("create", outcome),
                               !.settled = setup(a, c)]

\* The token function of the later setup's doFetch settles.
LaterTokenSettled ==
  /\ later.at = "token"
  /\ \/ /\ requests' = Append(requests, Request("later", "create", "", laterStreamId,
                                                  TRUE, later.held))
        /\ later' = [later EXCEPT !.at = "fetch", !.held = 0]
     \/ /\ LaterSettles(TokenRejected)
        /\ UNCHANGED requests
  /\ UNCHANGED <<token, sPc, args, session, held, tokenCalls, answered, responses,
                 callbacks, events, waits, logged, created, settled, clientVars,
                 abandoned>>

\* The create request of the later setup settles.
LaterCreateSettled(outcome) ==
  /\ later.at = "fetch"
  /\ LaterSettles(outcome)
  /\ UNCHANGED <<sessionVars, clientVars, abandoned>>

\* ------------------------------------- browser support (compatibility.ts)

\* The number of getBrowserSupport calls made on a page.
MaxQueries == 2

\* Number.parseInt of a missing or malformed version.
NaN == -1

\* What the user-agent parser reports: browser names, versions around the
\* minimum versions of the tables, device models and OS names; "" stands
\* for a field the parser left undefined.
BrowserNames == {"Chrome", "Chrome Headless", "Edge", "Firefox", "Safari",
                 "Mobile Safari", "Opera", "safari", ""}
BrowserVersions == {15, 16, 17, 65, 66, 67, 72, 73, 74, 76, 77, 78, 90, 91, 92, NaN}
DeviceModels == {"", "iPad", "iPhone", "Macintosh"}
OSNames == {"iOS", "macOS", "Mac OS", "Windows", ""}
TouchPoints == {0, 5}

\* String.prototype.toLowerCase on the names and models above.
toLowerCase(s) ==
  CASE s = "Chrome" -> "chrome"
    [] s = "Chrome Headless" -> "chrome headless"
    [] s = "Edge" -> "edge"
    [] s = "Firefox" -> "firefox"
    [] s = "Safari" -> "safari"
    [] s = "Mobile Safari" -> "mobile safari"
    [] s = "Opera" -> "opera"
    [] s = "iPad" -> "ipad"
    [] s = "iPhone" -> "iphone"
    [] s = "Macintosh" -> "macintosh"
    [] s = "macOS" -> "macos"
    [] s = "Mac OS" -> "mac os"
    [] s = "Windows" -> "windows"
    [] s = "iOS" -> "ios"
    [] OTHER -> s

\* os.name.replace(/\s/g, "") on the OS names above.
stripSpaces(s) == IF s = "Mac OS" THEN "MacOS" ELSE IF s = "mac os" THEN "macos" ELSE s

\* An entry of a compatibility table; devices is undefined when unrestricted.
Compatibility(minVer, restricted, devices) ==
  [minVer |-> minVer, restricted |-> restricted, devices |-> devices]

GeforceNowBrowsers ==
  [n \in {"chrome", "chrome headless", "edge", "safari", "mobile safari"} |->
     CASE n = "chrome" -> Compatibility(77, FALSE, {})
       [] n = "chrome headless" -> Compatibility(77, FALSE, {})
       [] n = "edge" -> Compatibility(91, FALSE, {})
       [] n = "safari" -> Compatibility(16, TRUE, {"ipad"})
       [] n = "mobile safari" -> Compatibility(16, FALSE, {})]

UbitusBrowsers ==
  [n \in {"chrome", "chrome headless", "firefox", "safari", "mobile safari"} |->
     CASE n = "chrome" -> Compatibility(73, FALSE, {})
       [] n = "chrome headless" -> Compatibility(73, FALSE, {})
       [] n = "firefox" -> Compatibility(66, FALSE, {})
       [] n = "safari" -> Compatibility(16, TRUE, {"ipad"})
       [] n = "mobile safari" -> Compatibility(16, FALSE, {})]

\* a <= b of two numbers, false when b is NaN.
Leq(a, b) == b # NaN /\ a <= b

\* isSupported with the minimum version itself refused.
isSupportedAbove(supportedBrowsers, name, version, device, os) ==
  IF os = "iOS" /\ name # "Safari" /\ name # "Mobile Safari" THEN FALSE
  ELSE LET lowercaseName == toLowerCase(name)
           lowercaseDevice == toLowerCase(device)
       IN IF lowercaseName \in DOMAIN supportedBrowsers
          THEN LET browser == supportedBrowsers[lowercaseName]
               IN /\ Leq(browser.minVer + 1, version)
                  /\ (IF browser.restricted
                      THEN lowercaseDevice \in browser.devices ELSE TRUE)
          ELSE FALSE

isSupported(supportedBrowsers, name, version, device, os) ==
  IF os = "iOS" /\ name # "Safari" /\ name # "Mobile Safari" THEN FALSE
  ELSE LET lowercaseName == toLowerCase(name)
           lowercaseDevice == toLowerCase(device)
       IN IF lowercaseName \in DOMAIN supportedBrowsers
          THEN LET browser == supportedBrowsers[lowercaseName]
                   isBrowserVersionSupported == Leq(browser.minVer, version)
                   isDeviceSupported ==
                     IF browser.restricted
                     THEN lowercaseDevice \in browser.devices ELSE TRUE
               IN isBrowserVersionSupported /\ isDeviceSupported
          ELSE FALSE

\* The environment of the page: what the parser makes of navigator.userAgent
\* (the identity string stands for itself as raw), and maxTouchPoints.
Navigators ==
  [name : BrowserNames, version : BrowserVersions, model : DeviceModels,
   os : OSNames, maxTouchPoints : TouchPoints]

raw(nav) == <<nav.name, nav.version, nav.model, nav.os>>

\* getUserAgent: a macOS with more than two touch points is an iPad on iOS.
getUserAgent(nav) ==
  IF toLowerCase(stripSpaces(nav.os)) = "macos" /\ nav.maxTouchPoints > 2
  THEN [raw |-> raw(nav), name |-> nav.name, version |-> nav.version,
        model |-> "iPad", type |-> "tablet", os |-> "iOS"]
  ELSE [raw |-> raw(nav), name |-> nav.name, version |-> nav.version,
        model |-> nav.model, type |-> "", os |-> nav.os]

\* The BrowserSupport descriptor computed for a parsed user agent.
BrowserSupport(ua) ==
  [browserName |-> ua.name, browserVersion |-> ua.version, osName |-> ua.os,
   deviceModel |-> ua.model, deviceType |-> ua.type,
   ubitusSupported |->
     isSupported(UbitusBrowsers, ua.name, ua.version, ua.model, ua.os),
   geforceSupported |->
     isSupported(GeforceNowBrowsers, ua.name, ua.version, ua.model, ua.os)]

\* getOrComputeCompat: the cached descriptor of the identity string, or a
\* new one which is cached. Returns the descriptor and the cache.
getOrComputeCompat(nav, cache) ==
  LET ua == getUserAgent(nav)
  IN IF ua.raw \in DOMAIN cache
     THEN [compat |-> cache[ua.raw], cache |-> cache]
     ELSE [compat |-> BrowserSupport(ua),
           cache |-> [r \in DOMAIN cache \cup {ua.raw} |->
                        IF r = ua.raw THEN BrowserSupport(ua) ELSE cache[r]]]

\* The descriptor with both providers forced to supported.
Forced(compat) ==
  [compat EXCEPT !.geforceSupported = TRUE, !.ubitusSupported = TRUE]

\* getStreamCompat overriding the cached descriptor in place.
getStreamCompatInPlace(nav, cache, skipBrowserSupportChecks) ==
  LET got == getOrComputeCompat(nav, cache)
  IN IF skipBrowserSupportChecks
     THEN [compat |-> Forced(got.compat),
           cache |-> [got.cache EXCEPT ![raw(nav)] = Forced(got.compat)]]
     ELSE got

\* getStreamCompat: with the flag, a copy of the descriptor with both
\* providers supported; the cached descriptor is not written to.
getStreamCompat(nav, cache, skipBrowserSupportChecks) ==
  LET got == getOrComputeCompat(nav, cache)
  IN IF skipBrowserSupportChecks
     THEN [compat |-> Forced(got.compat), cache |-> got.cache]
     ELSE got

\* StreamingClient.getBrowserSupport of a client built with the flag.
getBrowserSupport(compat) ==
  [GeforceNow |-> compat.geforceSupported, Ubitus |-> compat.ubitusSupported]

InitCompat(nav) ==
  /\ navigator = nav
  /\ compatCache = <<>>
  /\ support = <<>>

\* A client whose skipBrowserSupportChecks option is `skip` is asked for its
\* browser support.
GetBrowserSupport(skip) ==
  LET got == getStreamCompat(navigator, compatCache, skip)
  IN /\ Len(support) < MaxQueries
     /\ compatCache' = got.cache
     /\ support' = Append(support, [skip |-> skip,
                                    support |-> getBrowserSupport(got.compat)])
     /\ UNCHANGED navigator

\* --------------------------------------------- errors: is, wrap, catch, as

\* The longest cause chain of a value, and the most types given to catch.
MaxChain == 2
MaxTypes == 2

\* A value is the chain it heads: the value itself, then its cause, the
\* cause of that, and so on; <<>> is undefined. An element is an Error
\* object, with its class and its identity, or something that is no Error
\* (a string), which has no cause. No object is its own ancestor.
ErrorClasses == {"Error", "CustomError", "SubError"}
ErrorObject(class, id) == [class |-> class, id |-> id]
NonError == [class |-> "string", id |-> 0]
ErrorObjects == {ErrorObject(c, i) : c \in ErrorClasses, i \in 1..MaxChain}

\* class SubError extends CustomError, class CustomError extends Error
Extends(class) ==
  CASE class = "Error" -> {"Error"}
    [] class = "CustomError" -> {"CustomError", "Error"}
    [] class = "SubError" -> {"SubError", "CustomError", "Error"}
    [] class = "StreamTerminationError" ->
         {"StreamTerminationError", "StreamingClientError", "Error"}
    [] class = "GFNTerminationError" ->
         {"GFNTerminationError", "GFNClientError", "Error"}
    [] OTHER -> {}

\* value instanceof constructor
instanceOf(value, constructor) ==
  value # <<>> /\ constructor \in Extends(value[1].class)

ValuesOfLength(n) ==
  {v \in [1..n -> ErrorObjects \cup {NonError}] :
     /\ \A i \in 1..(n - 1) : v[i] # NonError
     /\ \A i, j \in 1..n : (i # j /\ v[i] # NonError) => v[i].id # v[j].id}
Values == UNION {ValuesOfLength(n) : n \in 0..MaxChain}

\* A target: an Error constructor, or an Error instance.
ConstructorTarget(class) == [kind |-> "constructor", class |-> class, id |-> 0]
InstanceTarget(id) == [kind |-> "instance", class |-> "Error", id |-> id]
Targets == {ConstructorTarget(c) : c \in ErrorClasses}
             \cup {InstanceTarget(i) : i \in 1..MaxChain}
TargetLists == UNION {[1..n -> Targets] : n \in 0..MaxTypes}

\* errors.is(value, target)
isTarget(value, target) ==
  IF target.kind = "constructor" THEN instanceOf(value, target.class)
  ELSE IF instanceOf(value, "Error") THEN value[1].id = target.id
  ELSE FALSE

\* errors.wrap(cause): new Error("unknown error", {cause}) is a new object.
wrap(cause) ==
  IF instanceOf(cause, "Error") THEN cause
  ELSE <<ErrorObject("Error", 0)>> \o cause

\* What fn does when called, and what catch does in turn.
Returns(value) == [kind |-> "returns", value |-> value]
Throws(value) == [kind |-> "throws", value |-> value]

\* errors.catch rethrowing what no type matches as a wrapped error.
catchWrapping(fn, types) ==
  IF fn.kind = "returns" THEN Returns(fn.value)
  ELSE IF Len(types) = 0 THEN Returns(wrap(fn.value))
  ELSE IF \E i \in 1..Len(types) : isTarget(fn.value, types[i])
       THEN Returns(fn.value)
  ELSE Throws(wrap(fn.value))

\* errors.catch(fn, ...errors)
catch_(fn, types) ==
  IF fn.kind = "returns" THEN Returns(fn.value)
  ELSE IF Len(types) = 0 THEN Returns(wrap(fn.value))
  ELSE IF \E i \in 1..Len(types) : isTarget(fn.value, types[i])
       THEN Returns(fn.value)
  ELSE Throws(fn.value)

\* errors.as looking at the value only, not at its causes.
asShallow(value, target) == IF isTarget(value, target) THEN value ELSE <<>>

\* errors.as(value, target)
RECURSIVE as(_, _)
as(value, target) ==
  IF isTarget(value, target) THEN value
  ELSE IF instanceOf(value, "Error") /\ Tail(value) # <<>>
       THEN as(Tail(value), target)
  ELSE <<>>

\* The target of a call of errors.as: the one given, or Error.
targetOf(types) == IF types = <<>> THEN ConstructorTarget("Error") ELSE types[1]

NotCalled == [op |-> "none", result |-> Returns(<<>>)]

InitErrors(fn, types) ==
  /\ given = [fn |-> fn, types |-> types]
  /\ answer = NotCalled

\* errors.as is called with the value and the first of the types.
As ==
  /\ answer = NotCalled
  /\ answer' = [op |-> "as",
             result |-> Returns(as(given.fn.value, targetOf(given.types)))]
  /\ UNCHANGED given

\* errors.catch is called with fn and the types.
Catch ==
  /\ answer = NotCalled
  /\ answer' = [op |-> "catch", result |-> catch_(given.fn, given.types)]
  /\ UNCHANGED given

\* --------------------------------- errors.as, one call of itself at a time

\* The depth of calls after which an engine with a bounded stack throws
\* RangeError; it is larger than any chain without a cycle.
MaxStack == 3

\* Error objects whose cause property is set after construction, so that a
\* chain of causes can lead back into itself. An object has a class and a
\* cause: another object, undefined (Absent) or a value that is no Error.
Objects == 1..MaxChain
Absent == 0
NoErrorValue == -1
Heaps == [class : [Objects -> ErrorClasses],
          cause : [Objects -> Objects \cup {Absent, NoErrorValue}]]

\* "return as(value.cause, target)" is a call in tail position of strict
\* code: an engine with proper tail calls reuses the frame, any other engine
\* pushes a frame for it.
Engines == {"frames", "tail calls"}

InitAs ==
  /\ \E heap \in Heaps, target \in ErrorClasses, engine \in Engines :
       given = [heap |-> heap, target |-> target, engine |-> engine]
  /\ answer = NotCalled

\* is(value, target) for the value a call of as is looking at.
matches(at) == at \in Objects /\ given.target \in Extends(given.heap.class[at])
\* value instanceof Error && value.cause !== undefined
hasCause(at) == at \in Objects /\ given.heap.cause[at] # Absent

\* as(value, target) is called with the first object as the value. The
\* answer keeps the parity of the number of calls made, so that a call which
\* looks at the same object as its caller is a step like any other.
AsCalled ==
  /\ answer = NotCalled
  /\ answer' = [op |-> "as", status |-> "running", at |-> 1, depth |-> 1,
                calls |-> "odd", result |-> Absent]
  /\ UNCHANGED given

\* The running call returns: the value it looks at if that matches, and
\* undefined if it is no Error or has no cause.
AsReturns ==
  /\ answer.op = "as" /\ answer.status = "running"
  /\ matches(answer.at) \/ ~hasCause(answer.at)
  /\ answer' = [answer EXCEPT !.status = "returned",
                              !.result = IF matches(answer.at) THEN answer.at
                                         ELSE Absent]
  /\ UNCHANGED given

\* The running call calls as with the cause of the value it looks at.
AsRecurses ==
  /\ answer.op = "as" /\ answer.status = "running"
  /\ ~matches(answer.at) /\ hasCause(answer.at)
  /\ given.engine = "frames" => answer.depth < MaxStack
  /\ answer' = [answer EXCEPT !.at = given.heap.cause[answer.at],
                              !.depth = IF given.engine = "frames" THEN @ + 1
                                        ELSE @,
                              !.calls = IF @ = "odd" THEN "even" ELSE "odd"]
  /\ UNCHANGED given

\* The call as would make does not fit on the stack: RangeError is thrown
\* through every frame.
AsOverflows ==
  /\ answer.op = "as" /\ answer.status = "running"
  /\ ~matches(answer.at) /\ hasCause(answer.at)
  /\ given.engine = "frames" /\ answer.depth = MaxStack
  /\ answer' = [answer EXCEPT !.status = "threw"]
  /\ UNCHANGED given

\* ----------------------------------------- cleanup's deletion reason

\* The reasons cleanup is given: undefined (<<>>), a string, or an Error
\* with its chain of causes. An Error has a message, which may be empty; a
\* GFNTerminationError has a code and a reason number as well.
Messages == {"", "boom", "limit"}
ReasonCodes == {0, 171, 15859712, 15868704}
ReasonNumbers == {-1, 7}
ReasonError(class, message) ==
  [class |-> class, message |-> message, code |-> 0, reason |-> 0]
ReasonTermination(message, code, reason) ==
  [class |-> "GFNTerminationError", message |-> message, code |-> code,
   reason |-> reason]
ReasonString(string) == [class |-> "string", message |-> string, code |-> 0, reason |-> 0]
ReasonErrors ==
  {ReasonError(c, m) : c \in {"Error", "StreamTerminationError"}, m \in Messages}
    \cup {ReasonTermination(m, c, r) :
            m \in Messages, c \in ReasonCodes, r \in ReasonNumbers}
ReasonStrings == {ReasonString("closed")}
ReasonsOfLength(n) ==
  {v \in [1..n -> ReasonErrors \cup ReasonStrings] :
     \A i \in 1..(n - 1) : v[i] \in ReasonErrors}
Reasons == UNION {ReasonsOfLength(n) : n \in 0..MaxChain}

\* Number.prototype.toString(16) of a code that is not negative: its
\* hexadecimal digits, lower case.
hexDigit(d) ==
  CASE d < 10 -> ToString(d)
    [] d = 10 -> "a" [] d = 11 -> "b" [] d = 12 -> "c"
    [] d = 13 -> "d" [] d = 14 -> "e" [] d = 15 -> "f"
RECURSIVE toString16(_)
toString16(n) ==
  IF n < 16 THEN <<hexDigit(n)>> ELSE Append(toString16(n \div 16), hexDigit(n % 16))

\* String.prototype.toUpperCase, character by character.
upperCase(ch) ==
  CASE ch = "a" -> "A" [] ch = "b" -> "B" [] ch = "c" -> "C"
    [] ch = "d" -> "D" [] ch = "e" -> "E" [] ch = "f" -> "F"
    [] OTHER -> ch
toUpperCase(chars) == [i \in 1..Len(chars) |-> upperCase(chars[i])]

\* The string of a sequence of characters.
RECURSIVE join(_)
join(chars) == IF chars = <<>> THEN "" ELSE chars[1] \o join(Tail(chars))

\* A deletionReason: a string, or undefined.
Text(string) == [kind |-> "string", text |-> string]
NoText == [kind |-> "undefined", text |-> ""]

\* cleanup's deletion reason with only the reason itself looked at.
deletionReasonShallow(reason) ==
  LET own == IF reason = <<>> THEN NoText ELSE Text(reason[1].message)
      g == asShallow(reason, ConstructorTarget("GFNTerminationError"))
  IN IF g = <<>> THEN own
     ELSE Text("GFN: " \o (IF g[1].message # "" THEN g[1].message ELSE own.text)
                 \o " (reason=" \o ToString(g[1].reason) \o ", code=0x"
                 \o join(toUpperCase(toString16(g[1].code))) \o ")")

\* cleanup({reason}): the deletionReason it gives deleteSession.
deletionReason(reason) ==
  LET own == IF reason = <<>> THEN NoText ELSE Text(reason[1].message)
      g == as(reason, ConstructorTarget("GFNTerminationError"))
  IN IF g = <<>> THEN own
     ELSE Text("GFN: " \o (IF g[1].message # "" THEN g[1].message ELSE own.text)
                 \o " (reason=" \o ToString(g[1].reason) \o ", code=0x"
                 \o join(toUpperCase(toString16(g[1].code))) \o ")")

InitReason(reason) ==
  /\ given = [reason |-> reason]
  /\ answer = NotCalled

\* cleanup is called with the reason.
CleanupReason ==
  /\ answer = NotCalled
  /\ answer' = [op |-> "cleanup", result |-> deletionReason(given.reason)]
  /\ UNCHANGED given

\* ------------------------------------------ an engine signal on its own

\* The signals of the engine, the codes and the reasons they carry.
EngineSignals == {"started", "diagnostic", "terminated"}
EngineCodes == {"undefined", "Success", ServerDisconnectedIntended, NetworkError,
                RequestLimitExceeded, SessionLimitExceeded}
SignalReasons == {0, 7, 255}

InitListen(signal, code, reason) ==
  /\ given = [signal |-> signal, code |-> code, reason |-> reason]
  /\ answer = NotCalled

\* The engine delivers the signal to the handlers listen registered.
Listen ==
  /\ answer = NotCalled
  /\ answer' = [op |-> "listen",
                result |-> listen(given.signal, given.code, given.reason)]
  /\ UNCHANGED given

\* -------------------------------------------------------- specification

\* The page the client and the session client are observed on.
Page == [name |-> "Chrome", version |-> 77, model |-> "", os |-> "Windows",
         maxTouchPoints |-> 0]

Init ==
  /\ InitClient
  /\ InitSessionClient("none")
  /\ InitLogger("undefined")
  /\ InitCompat(Page)
  /\ InitErrors(Returns(<<>>), <<>>)

Next ==
  \/ \E a \in Attempts : Start(a) /\ UNCHANGED exceptClient
  \/ \E a \in Attempts : ScriptLoaded(a) /\ UNCHANGED exceptClient
  \/ \E a \in Attempts : Initialize(a) /\ UNCHANGED exceptClient
  \/ \E a \in Attempts : InitializeSettled(a) /\ UNCHANGED exceptClient
  \/ \E a \in Attempts : ServerInfoSettled(a) /\ UNCHANGED exceptClient
  \/ \E a \in Attempts : ListenAndStart(a) /\ UNCHANGED exceptClient
  \/ \E a \in Attempts : DriverStartThrew(a) /\ UNCHANGED exceptClient
  \/ EngineSignal /\ UNCHANGED exceptClient
  \/ Stop /\ UNCHANGED exceptClient
  \/ \E a \in Attempts : CloseTab(a) /\ UNCHANGED exceptClient
  \/ \E a \in Attempts : IntervalTick(a) /\ UNCHANGED exceptClient

Spec == Init /\ [][Next]_vars

\* Embedded starts on their own: every caller may call start while starts of
\* other callers are parked at an await of initClient or of the driver.
EmbeddedStart(a) == Start(a) /\ opts'[a].target = Embedded

NextDriver ==
  \/ \E a \in Callers : EmbeddedStart(a) /\ UNCHANGED exceptClient
  \/ \E a \in Callers : ScriptLoaded(a) /\ UNCHANGED exceptClient
  \/ \E a \in Callers : Initialize(a) /\ UNCHANGED exceptClient
  \/ \E a \in Callers : InitializeSettled(a) /\ UNCHANGED exceptClient
  \/ \E a \in Callers : ServerInfoSettled(a) /\ UNCHANGED exceptClient
  \/ \E a \in Callers : ListenAndStart(a) /\ UNCHANGED exceptClient
  \/ \E a \in Callers : DriverStartThrew(a) /\ UNCHANGED exceptClient

SpecDriver == Init /\ [][NextDriver]_vars

\* One driver instance and the calls of its start, which may overlap.
NextPlayer ==
  \/ \E d \in DriverStarts : DriverStart(d) /\ UNCHANGED exceptPlayer
  \/ \E d \in DriverStarts : LoginSettled(d) /\ UNCHANGED exceptPlayer
  \/ \E d \in DriverStarts : StreamerStartSettled(d) /\ UNCHANGED exceptPlayer

SpecPlayer == Init /\ [][NextPlayer]_vars

\* cleanup on its own, for every reason.
InitCleanup ==
  /\ InitClient
  /\ InitSessionClient("none")
  /\ InitLogger("undefined")
  /\ InitCompat(Page)
  /\ \E reason \in Reasons : InitReason(reason)

NextCleanup == CleanupReason /\ UNCHANGED exceptErrors

SpecCleanup == InitCleanup /\ [][NextCleanup]_vars

\* The driver's handlers on their own, for every signal of the engine.
InitSignal ==
  /\ InitClient
  /\ InitSessionClient("none")
  /\ InitLogger("undefined")
  /\ InitCompat(Page)
  /\ \E signal \in EngineSignals, code \in EngineCodes, reason \in SignalReasons :
       InitListen(signal, code, reason)

NextSignal == Listen /\ UNCHANGED exceptErrors

SpecSignal == InitSignal /\ [][NextSignal]_vars

\* One start call together with the session client: the cleanup call of the
\* start's onTerminated closure is the session client's deleteSession, whose
\* request settles on its own.
CleanupCalled == \E i \in 1..Len(trace[1]) : trace[1][i].type = "deleteSession"

WithCleanup(A) ==
  /\ A
  /\ IF CleanupCalled' /\ ~CleanupCalled THEN Cleanup ELSE UNCHANGED sessionVars
  /\ UNCHANGED exceptTeardown

InitTeardown ==
  /\ InitClient
  /\ \E tk \in Tokens : InitSessionClient(tk)
  /\ InitLogger("undefined")
  /\ InitCompat(Page)
  /\ InitErrors(Returns(<<>>), <<>>)

NextTeardown ==
  \/ WithCleanup(Start(1))
  \/ WithCleanup(ScriptLoaded(1))
  \/ WithCleanup(Initialize(1))
  \/ WithCleanup(InitializeSettled(1))
  \/ WithCleanup(ServerInfoSettled(1))
  \/ WithCleanup(ListenAndStart(1))
  \/ WithCleanup(DriverStartThrew(1))
  \/ WithCleanup(EngineSignal)
  \/ WithCleanup(CloseTab(1))
  \/ WithCleanup(IntervalTick(1))
  \/ TokenSettled("cleanup") /\ UNCHANGED exceptSession
  \/ \E outcome \in DeleteOutcomes : DeleteSettled(outcome) /\ UNCHANGED exceptSession

SpecTeardown == InitTeardown /\ [][NextTeardown]_vars

\* Window-target starts, the tabs they open, the intervals that watch them
\* and stop calls. An interval that is set keeps firing.
WindowStart(a) == Start(a) /\ opts'[a].target = Window

NextWindow ==
  \/ \E a \in Callers : WindowStart(a) /\ UNCHANGED exceptClient
  \/ \E a \in Callers : CloseTab(a) /\ UNCHANGED exceptClient
  \/ \E a \in Callers : IntervalTick(a) /\ UNCHANGED exceptClient
  \/ Stop /\ UNCHANGED exceptClient

SpecWindow ==
  /\ Init
  /\ [][NextWindow]_vars
  /\ \A a \in Callers : WF_vars(IntervalTick(a) /\ UNCHANGED exceptClient)

\* Embedded starts in one page, and the signals of the engine they share.
NextListeners ==
  \/ \E a \in Callers : EmbeddedStart(a) /\ UNCHANGED exceptClient
  \/ \E a \in Callers : ScriptLoaded(a) /\ UNCHANGED exceptClient
  \/ \E a \in Callers : Initialize(a) /\ UNCHANGED exceptClient
  \/ \E a \in Callers : InitializeSettled(a) /\ UNCHANGED exceptClient
  \/ \E a \in Callers : ServerInfoSettled(a) /\ UNCHANGED exceptClient
  \/ \E a \in Callers : ListenAndStart(a) /\ UNCHANGED exceptClient
  \/ \E a \in Callers : DriverStartThrew(a) /\ UNCHANGED exceptClient
  \/ EngineSignal /\ UNCHANGED exceptClient

SpecListeners == Init /\ [][NextListeners]_vars

\* The session client on its own: one setup call and one cleanup call, which
\* may overlap, under each configuration of the token option.
InitSession ==
  /\ InitClient
  /\ \E tk \in Tokens : InitSessionClient(tk)
  /\ \E option \in Loggers : InitLogger(option)
  /\ InitCompat(Page)
  /\ InitErrors(Returns(<<>>), <<>>)

NextSession ==
  \/ \E worldId \in WorldIds : Setup(worldId) /\ UNCHANGED exceptSession
  \/ Cleanup /\ UNCHANGED exceptSession
  \/ \E op \in Ops : TokenSettled(op) /\ UNCHANGED exceptSession
  \/ \E outcome \in FetchOutcomes : CreateSettled(outcome) /\ UNCHANGED exceptSession
  \/ \E outcome \in FetchOutcomes : RefreshSettled(outcome) /\ UNCHANGED exceptSession
  \/ WaitElapsed /\ UNCHANGED exceptSession
  \/ \E outcome \in DeleteOutcomes : DeleteSettled(outcome) /\ UNCHANGED exceptSession

SpecSession == InitSession /\ [][NextSession]_vars

\* A setup call with stop calls and a later setup call made while it is in
\* flight.
NextLifecycle ==
  \/ \E worldId \in WorldIds : Setup(worldId) /\ UNCHANGED exceptSession
  \/ TokenSettled("setup") /\ UNCHANGED exceptSession
  \/ \E outcome \in LifecycleOutcomes : CreateSettled(outcome) /\ UNCHANGED exceptSession
  \/ \E outcome \in LifecycleOutcomes : RefreshSettled(outcome) /\ UNCHANGED exceptSession
  \/ WaitElapsed /\ UNCHANGED exceptSession
  \/ StopDuringSetup /\ UNCHANGED exceptLifecycle
  \/ SetupAgain /\ UNCHANGED exceptLifecycle
  \/ LaterTokenSettled /\ UNCHANGED exceptLifecycle
  \/ \E outcome \in LifecycleOutcomes :
       LaterCreateSettled(outcome) /\ UNCHANGED exceptLifecycle

InitLifecycle ==
  /\ InitClient
  /\ \E tk \in Tokens : InitSessionClient(tk)
  /\ InitLogger("undefined")
  /\ InitCompat(Page)
  /\ InitErrors(Returns(<<>>), <<>>)

SpecLifecycle == InitLifecycle /\ [][NextLifecycle]_vars

\* --------------------------------- react/use-pixel-streaming.ts startStreaming

\* value instanceof StreamingClientError: ElementNotFound, PopupBlocked and
\* UnsupportedProvider are instances of the class, StreamTerminationError
\* extends it; GFNClientError and TypeError extend Error only.
isStreamingClientError(value) ==
  value.name \in {"UnsupportedProvider", "PopupBlocked", "ElementNotFound",
                  "StreamTerminationError"}

\* startStreaming's call of start: the provider is always GeforceNow.
HookStart(a) == Start(a) /\ opts'[a].provider = GeforceNow

\* startStreaming after its start call returned a StreamingClientError: it
\* calls the client's cleanup with that error as the reason, for the session
\* that setup gave it, and throws the error.
HookCleanup(a) ==
  /\ pc[a] = "done"
  /\ isStreamingClientError(result[a])
  /\ trace' = [trace EXCEPT ![a] = @ \o cleanup(opts[a].sessionId, result[a])]
  /\ pc' = [pc EXCEPT ![a] = "thrown"]
  /\ UNCHANGED <<opts, needsCleanup, result, driverVars, engineEvents,
                 lastSignal, stopLog, tabClosed, timerActive>>

NextHook ==
  \/ \E a \in Callers : HookStart(a) /\ UNCHANGED exceptClient
  \/ \E a \in Callers : ScriptLoaded(a) /\ UNCHANGED exceptClient
  \/ \E a \in Callers : Initialize(a) /\ UNCHANGED exceptClient
  \/ \E a \in Callers : InitializeSettled(a) /\ UNCHANGED exceptClient
  \/ \E a \in Callers : ServerInfoSettled(a) /\ UNCHANGED exceptClient
  \/ \E a \in Callers : ListenAndStart(a) /\ UNCHANGED exceptClient
  \/ \E a \in Callers : DriverStartThrew(a) /\ UNCHANGED exceptClient
  \/ \E a \in Callers : HookCleanup(a) /\ UNCHANGED exceptClient

SpecHook == Init /\ [][NextHook]_vars

\* One setup call whose requests are all answered and whose timers all
\* fire.
NextPoll ==
  \/ \E worldId \in WorldIds : Setup(worldId) /\ UNCHANGED exceptSession
  \/ TokenSettled("setup") /\ UNCHANGED exceptSession
  \/ \E outcome \in FetchOutcomes : CreateSettled(outcome) /\ UNCHANGED exceptSession
  \/ \E outcome \in FetchOutcomes : RefreshSettled(outcome) /\ UNCHANGED exceptSession
  \/ WaitElapsed /\ UNCHANGED exceptSession

SpecPoll == InitLifecycle /\ [][NextPoll]_vars /\ WF_vars(NextPoll)

\* One call of errors.as that is never kept from making its next step.
InitRecursion ==
  /\ InitClient
  /\ InitSessionClient("none")
  /\ InitLogger("undefined")
  /\ InitCompat(Page)
  /\ InitAs

NextRecursion ==
  \/ AsCalled /\ UNCHANGED exceptErrors
  \/ AsReturns /\ UNCHANGED exceptErrors
  \/ AsRecurses /\ UNCHANGED exceptErrors
  \/ AsOverflows /\ UNCHANGED exceptErrors

SpecRecursion == InitRecursion /\ [][NextRecursion]_vars /\ WF_vars(NextRecursion)

\* Browser support on its own: a page of any environment, asked for its
\* support by clients built with and without skipBrowserSupportChecks.
InitBrowser ==
  /\ InitClient
  /\ InitSessionClient("none")
  /\ InitLogger("undefined")
  /\ \E nav \in Navigators : InitCompat(nav)
  /\ InitErrors(Returns(<<>>), <<>>)

NextBrowser ==
  \E skip \in BOOLEAN :
    /\ GetBrowserSupport(skip)
    /\ UNCHANGED exceptBrowser

SpecBrowser == InitBrowser /\ [][NextBrowser]_vars

\* The errors utilities on their own: one call of errors.as or errors.catch
\* on a function that returns or throws any value, with any types.
InitUtilities ==
  /\ InitClient
  /\ InitSessionClient("none")
  /\ InitLogger("undefined")
  /\ InitCompat(Page)
  /\ \E value \in Values, types \in TargetLists :
       \/ InitErrors(Returns(value), types)
       \/ InitErrors(Throws(value), types)

NextUtilities ==
  \/ As /\ UNCHANGED exceptErrors
  \/ Catch /\ UNCHANGED exceptErrors

SpecUtilities == InitUtilities /\ [][NextUtilities]_vars

\* ----------------------------------------------------- reading a trace

IsStreamState(e) == e.type = "streamStateUpdated"
IsErrorEvent(e) == e.type = "error"
IsDelete(e) == e.type = "deleteSession"
IsCall(e) == e.type = "call"

\* The streamStateUpdated events of an attempt, and their states.
StreamEvents(a) == SelectSeq(trace[a], IsStreamState)
StreamStates(a) == [i \in 1..Len(StreamEvents(a)) |-> StreamEvents(a)[i].state]
\* The deleteSession calls of an attempt.
Deletes(a) == SelectSeq(trace[a], IsDelete)
\* The termination signals the attempt's onTerminated closure received: it
\* emits one error event per call.
Signals(a) == Len(SelectSeq(trace[a], IsErrorEvent))
\* The driver and browser calls of an attempt.
Calls(a) == SelectSeq(trace[a], IsCall)
Called(a, name) == \E i \in 1..Len(trace[a]) :
  trace[a][i].type = "call" /\ trace[a][i].state = name
Emitted(a, state) == \E i \in 1..Len(StreamStates(a)) : StreamStates(a)[i] = state

Started(a) == pc[a] # "idle"
Settled(a) == pc[a] \in {"done", "rejected"}

\* ------------------------------------------------------------- claims

\* C1: over every sequence of termination signals delivered to one attempt's
\* onTerminated closure, the first signal issues exactly one deleteSession
\* call, for the attempt's sessionId, and every later signal issues none:
\* the attempt has no deleteSession call before its first signal, and from
\* then on exactly one, made in the first signal's run of the closure.
C1_ExactlyOneCleanup ==
  \A a \in Attempts :
    /\ Signals(a) = 0 => Len(Deletes(a)) = 0
    /\ Signals(a) >= 1 =>
         /\ Len(Deletes(a)) = 1
         /\ Deletes(a)[1].sid = opts[a].sessionId
         /\ \E i \in 1..Len(trace[a]) :
              /\ IsErrorEvent(trace[a][i])
              /\ \A j \in 1..(i - 1) : ~IsErrorEvent(trace[a][j])
              /\ i + 2 <= Len(trace[a])
              /\ IsDelete(trace[a][i + 2])

C1_Witness ==
  \E a \in Attempts : Signals(a) >= 2 /\ Len(Deletes(a)) = 1

\* C2: in an Embedded start, an engine 'terminated' signal with no code or
\* with ServerDisconnectedIntended makes the attempt emit a Terminated event
\* without an error payload, and one with any other code a Terminated event
\* whose error payload carries that code.
C2_TerminatedPayload ==
  [][\A a \in Attempts :
       (engineEvents' # engineEvents /\ lastSignal'.signal = "terminated"
          /\ Listening(a))
       => \E i \in (Len(trace[a]) + 1)..Len(trace'[a]) :
            /\ trace'[a][i].type = "streamStateUpdated"
            /\ trace'[a][i].state = "Terminated"
            /\ IF lastSignal'.code \in {"undefined", ServerDisconnectedIntended}
                 THEN trace'[a][i].error = Undefined
                 ELSE trace'[a][i].error.cause.code = lastSignal'.code]_vars

\* C3: the stream states an attempt with a supported provider emits are
\* Loading first, then Streaming or Terminated, and nothing follows a
\* Terminated.
C3_TerminatedIsLast ==
  \A a \in Attempts :
    LET states == StreamStates(a)
    IN (Started(a) /\ supported(opts[a].provider)) =>
         /\ Len(states) >= 1
         /\ states[1] = "Loading"
         /\ \A i \in 2..Len(states) : states[i] \in {"Streaming", "Terminated"}
         /\ \A i \in 1..Len(states) : states[i] = "Terminated" => i = Len(states)

\* C4: a Window-target start without a container whose globalThis.open
\* returned null returns PopupBlocked, makes exactly one deleteSession call,
\* emits exactly Loading then Terminated, and sets no window-close interval.
OpenReturnedNull(a) ==
  \E i \in 1..Len(trace[a]) : trace[a][i] = Returned("globalThis.open", Value("null"))

C4_PopupBlocked ==
  \A a \in Attempts :
    OpenReturnedNull(a) =>
      /\ pc[a] = "done"
      /\ result[a] = PopupBlocked
      /\ Len(Deletes(a)) = 1
      /\ StreamStates(a) = <<"Loading", "Terminated">>
      /\ ~timerActive[a]
      /\ ~Called(a, "setInterval")

C4_Witness ==
  \E a \in Attempts :
    /\ OpenReturnedNull(a)
    /\ opts[a].target = Window
    /\ opts[a].container = "undefined"

\* C5: once the tab a Window-target start opened has been closed and the
\* window-close interval has seen it, the attempt has emitted Terminated and
\* made exactly one deleteSession call.
C5_WindowClosedCleansUp ==
  \A a \in Attempts :
    (tabClosed[a] /\ ~timerActive[a]) =>
      /\ Emitted(a, "Terminated")
      /\ Len(Deletes(a)) = 1

\* C6: an Embedded start whose container resolved and that ended in a failure
\* of driver acquisition or of the driver's start has emitted Terminated and
\* made exactly one deleteSession call.
C6_DriverFailureTerminates ==
  \A a \in Attempts :
    (/\ Settled(a)
     /\ opts[a].target = Embedded
     /\ is(result[a])
     /\ result[a] \notin {ElementNotFound, UnsupportedProvider})
    => /\ Emitted(a, "Terminated")
       /\ Len(Deletes(a)) = 1

\* C7: the promise of StreamingClient.start never rejects.
C7_StartNeverRejects ==
  \A a \in Attempts : pc[a] # "rejected"

\* C8: start with a provider other than GeforceNow returns
\* UnsupportedProvider and does nothing else: the attempt emits no event,
\* makes no deleteSession call, calls neither the browser nor the driver,
\* registers no engine callback and sets no interval.
C8_UnsupportedProvider ==
  \A a \in Attempts :
    (Started(a) /\ opts[a].provider # GeforceNow) =>
      /\ pc[a] = "done"
      /\ result[a] = UnsupportedProvider
      /\ trace[a] = <<>>
      /\ ~Listening(a)
      /\ ~timerActive[a]

C8_Witness ==
  \E a \in Attempts : Started(a) /\ opts[a].provider = Ubitus

\* C9: an Embedded start whose CSS selector matches no element returns
\* ElementNotFound and makes no call of the driver: no getOrInitClient, no
\* initClient, no listen, no GFNClient.start, no script element.
C9_ElementNotFound ==
  \A a \in Attempts :
    (/\ Started(a)
     /\ supported(opts[a].provider)
     /\ opts[a].target = Embedded
     /\ opts[a].container = "selector-miss")
    => /\ pc[a] = "done"
       /\ result[a] = ElementNotFound
       /\ Calls(a) = <<>>
       /\ ~Listening(a)

C9_Witness ==
  \E a \in Attempts :
    /\ Started(a)
    /\ opts[a].provider = GeforceNow
    /\ opts[a].target = Embedded
    /\ opts[a].container = "selector-miss"
    /\ Signals(a) = 1

IsRefresh(r) == r.method = "refresh"
\* The refresh requests sent so far.
Refreshes == SelectSeq(requests, IsRefresh)
\* setup was called with a worldId that createSession takes as given.
WithWorld == args["setup"].worldId = "world"
SetupCalled == sPc["setup"].at # "idle"
\* The createSession call is in pollSession, or has been.
Polling == sPc["setup"].method = "refresh" \/ sPc["setup"].at = "timer"
Polls == Polling \/ responses # <<>>
\* A refresh response in state Active or in a terminal state.
Stops(o) == o.kind = "ok" /\ o.session.state \in {Active} \cup TerminalStates
IsTerminal(o) == o.kind = "ok" /\ o.session.state \in TerminalStates
IsActive(o) == o.kind = "ok" /\ o.session.state = Active
NotActive(o) == o.kind = "ok" /\ o.session.state # Active

\* C11: with a worldId, a create response in a waiting state (Queued or
\* Admitted) takes createSession into the poll loop; createSession does not
\* return a session in a waiting state without having polled.
C11_WaitingStatePolls ==
  /\ (WithWorld /\ answered["setup"].kind = "ok"
        /\ answered["setup"].session.state \in WaitingStates) => Polls
  /\ (WithWorld /\ created.status = "resolved" /\ created.value.kind = "session"
        /\ created.value.state \in WaitingStates) => responses # <<>>

\* C12: once in the poll loop, createSession resolves with a session only if
\* a refresh returned Active; after a refresh that returned a terminal state
\* createSession resolves with undefined, and so does setup.
C12_TerminalYieldsNoSession ==
  (responses # <<>> /\ created.status = "resolved") =>
    /\ created.value.kind = "session" => IsActive(responses[Len(responses)])
    /\ (\E i \in 1..Len(responses) : IsTerminal(responses[i])) =>
         /\ created.value.kind = "undefined"
         /\ settled["setup"] = Resolved(NoConfig)

\* C13: after a refresh returned Active or a terminal state, that response
\* is the last one: the createSession call makes no further refreshSession
\* call and sends no further refresh request.
C13_PollingStops ==
  \A i \in 1..Len(responses) :
    Stops(responses[i]) =>
      /\ i = Len(responses)
      /\ sPc["setup"].method # "refresh"
      /\ Len(Refreshes) <= i

C13_Witness ==
  /\ Len(responses) = 2
  /\ IsTerminal(responses[2])
  /\ Len(waits) = 2
  /\ sPc["setup"].at = "done"

\* The states of the refresh responses that carried a session.
ResponseStates ==
  LET ok == SelectSeq(responses, LAMBDA o : o.kind = "ok")
  IN [i \in 1..Len(ok) |-> ok[i].session.state]

\* C14: a createSession call that polled after a Queued create response and
\* succeeded has called onStateChange exactly twice, with Queued and then
\* with Active; one timer of 5000 ms is set per refresh response that was
\* not Active, and no other.
C14_TwoCallbacks ==
  /\ Len(waits) = Len(SelectSeq(responses, NotActive))
  /\ \A i \in 1..Len(waits) : waits[i] = 5000
  /\ (/\ answered["setup"].kind = "ok"
      /\ answered["setup"].session.state = Queued
      /\ created.status = "resolved"
      /\ created.value.kind = "session"
      /\ created.value.state = Active) => callbacks = <<Queued, Active>>

C14_Witness ==
  /\ answered["setup"].kind = "ok"
  /\ answered["setup"].session.state = Queued
  /\ ResponseStates = <<Queued, Pending, Active>>
  /\ created.status = "resolved"
  /\ callbacks = <<Queued, Active>>
  /\ waits = <<5000, 5000>>

\* C15: a refresh that fails (the response is not ok, or the request is
\* rejected) is the last one: createSession has resolved with undefined, the
\* failure is the last thing logged, and no refresh request follows it.
C15_FailedRefreshEnds ==
  \A i \in 1..Len(responses) :
    responses[i].kind # "ok" =>
      /\ i = Len(responses)
      /\ sPc["setup"].at = "done"
      /\ created = Resolved(NoSession)
      /\ logged["setup"] = errors("refresh", responses[i])
      /\ Len(logged["setup"]) = 1
      /\ Len(Refreshes) <= i
      /\ Len(waits) = i - 1

C15_Witness ==
  /\ Len(responses) = 2
  /\ responses[1].kind = "ok"
  /\ responses[2].kind = "notok"
  /\ Len(Refreshes) = 2
  /\ created = Resolved(NoSession)

\* C16: createSession called without a worldId resolves with the session of
\* the create response whatever its state, having sent no refresh request,
\* set no timer and never called onStateChange.
C16_NoWorldNoPolling ==
  (SetupCalled /\ ~WithWorld) =>
    /\ ~Polls
    /\ Refreshes = <<>>
    /\ waits = <<>>
    /\ callbacks = <<>>
    /\ events = <<>>
    /\ answered["setup"].kind = "ok" => created = Resolved(answered["setup"].session)

C16_Witness ==
  /\ args["setup"].worldId = "undefined"
  /\ answered["setup"].kind = "ok"
  /\ answered["setup"].session.state = Queued
  /\ created = Resolved(answered["setup"].session)

\* A request failed: it was rejected, before or after it was sent, or its
\* response was not ok.
Fails(o) == o.kind \in {"notok", "rejected", "token"}
\* The number of elements of a sequence that satisfy a test.
Count(seq, Test(_)) == Len(SelectSeq(seq, Test))
IsTokenRejected(o) == o.kind = "token"

\* C17: the createSession promise never rejects; when the create request
\* failed (status not ok, fetch rejected, token function threw) or a refresh
\* failed, it has resolved with undefined and the failure was logged.
C17_CreateSessionNeverThrows ==
  /\ created.status # "rejected"
  /\ settled["setup"].status # "rejected"
  /\ (\/ Fails(answered["setup"])
      \/ \E i \in 1..Len(responses) : Fails(responses[i])) =>
       /\ created = Resolved(NoSession)
       /\ Len(logged["setup"]) = 1

C17_Witness ==
  /\ token = "function"
  /\ answered["setup"] = TokenRejected
  /\ requests = <<>>
  /\ created = Resolved(NoSession)
  /\ logged["setup"] = <<"Failed to make fetch session config request:">>

C19_SetupResult ==
  /\ (settled["setup"].status = "pending") = (created.status = "pending")
  /\ settled["setup"].status = "resolved" =>
       /\ (settled["setup"].value.kind = "undefined")
             = (created.value.kind = "undefined")
       /\ settled["setup"].value.kind = "config" =>
            /\ \E i \in 1..Len(requests) :
                  /\ requests[i].method = "create"
                  /\ requests[i].streamId = settled["setup"].value.streamId
            /\ settled["setup"].value.projectId = args["setup"].projectId
            /\ settled["setup"].value.worldId = args["setup"].worldId
            /\ settled["setup"].value.sessionId = created.value.sessionId
            /\ settled["setup"].value.config = created.value.providerConfig
  /\ Len(events) = Len(callbacks)
  /\ \A i \in 1..Len(events) :
       /\ events[i].type = "sessionStateUpdated"
       /\ events[i].state = callbacks[i]

C19_Witness ==
  /\ settled["setup"].status = "resolved"
  /\ settled["setup"].value.kind = "config"
  /\ settled["setup"].value.config = "geforce"
  /\ settled["setup"].value.streamId = "uuid"
  /\ Len(events) = 2
  /\ events[2].state = Active

\* The operations parked at the token function.
AwaitingToken == {op \in Ops : sPc[op].at = "token"}
\* The calls of doFetch that ended with the token function rejecting.
TokenFailures ==
  Cardinality({op \in Ops : answered[op] = TokenRejected})
    + Count(responses, IsTokenRejected)

\* C20: with a token function configured, every request carries the result
\* of an invocation of its own (no two requests carry the same one), and
\* the function has been invoked once per doFetch call: once per request
\* sent, per call still awaiting it and per call it rejected.
C20_TokenPerRequest ==
  token = "function" =>
    /\ \A i \in 1..Len(requests) :
         /\ requests[i].authorized
         /\ requests[i].n \in 1..tokenCalls
    /\ \A i, j \in 1..Len(requests) : requests[i].n = requests[j].n => i = j
    /\ \A op \in AwaitingToken :
         /\ held[op] \in 1..tokenCalls
         /\ \A i \in 1..Len(requests) : requests[i].n # held[op]
    /\ tokenCalls = Len(requests) + Cardinality(AwaitingToken) + TokenFailures

C20_Witness ==
  /\ token = "function"
  /\ Len(requests) = 3
  /\ requests[1].method = "create"
  /\ requests[2].method = "refresh"
  /\ requests[3].method = "delete"
  /\ sPc["setup"] = Parked("token", "refresh")
  /\ sPc["cleanup"] = Parked("fetch", "delete")
  /\ tokenCalls = 4

\* C21: what the session operations log on a failure goes to the logger the
\* StreamingClient was given in ClientOptions.logger (its own this.logger).
C21_InjectedLogger ==
  \A op \in Ops :
    logged[op] # <<>> => logger = StreamingClientLogger(loggerOption)

\* C23: a Window-target start given a window to reuse has set the interval
\* that polls the window's closed flag (and emits Terminated once it closed).
C23_ReusedWindowPolled ==
  \A a \in Attempts :
    (/\ Settled(a)
     /\ opts[a].provider = GeforceNow
     /\ opts[a].target = Window
     /\ opts[a].container = "window") =>
       /\ Called(a, "setInterval")
       /\ timerActive[a] \/ Emitted(a, "Terminated")

\* ---------------------------------------------- reading browser support

\* The rule of provider support: not an iOS browser other than Safari and
\* Mobile Safari, and the table has an entry for the lower-cased name whose
\* minimum the version reaches and whose devices, if any, hold the
\* lower-cased model.
SupportRule(table, name, version, model, os) ==
  /\ ~(os = "iOS" /\ name \notin {"Safari", "Mobile Safari"})
  /\ \E n \in DOMAIN table :
       /\ n = toLowerCase(name)
       /\ version >= table[n].minVer
       /\ table[n].restricted => toLowerCase(model) \in table[n].devices

\* The descriptor cached for the page.
Cached == compatCache[raw(navigator)]
IsCached == raw(navigator) \in DOMAIN compatCache

\* C24: the support flags of a descriptor follow the rule, for both
\* providers; a browser at the minimum version of its unrestricted entry is
\* supported off iOS and one version below it is not; Safari from version
\* 16 on is supported exactly on an iPad model.
C24_SupportRule ==
  IsCached =>
    LET d == Cached
        n == toLowerCase(d.browserName)
    IN /\ d.geforceSupported = SupportRule(GeforceNowBrowsers, d.browserName,
                                 d.browserVersion, d.deviceModel, d.osName)
       /\ d.ubitusSupported = SupportRule(UbitusBrowsers, d.browserName,
                                d.browserVersion, d.deviceModel, d.osName)
       /\ (n \in DOMAIN GeforceNowBrowsers /\ d.osName # "iOS"
             /\ ~GeforceNowBrowsers[n].restricted) =>
            /\ d.browserVersion = GeforceNowBrowsers[n].minVer => d.geforceSupported
            /\ d.browserVersion = GeforceNowBrowsers[n].minVer - 1 => ~d.geforceSupported
       /\ (n \in DOMAIN UbitusBrowsers /\ d.osName # "iOS"
             /\ ~UbitusBrowsers[n].restricted) =>
            /\ d.browserVersion = UbitusBrowsers[n].minVer => d.ubitusSupported
            /\ d.browserVersion = UbitusBrowsers[n].minVer - 1 => ~d.ubitusSupported
       /\ (d.browserName = "Safari" /\ d.browserVersion >= 16) =>
            /\ d.geforceSupported = (toLowerCase(d.deviceModel) = "ipad")
            /\ d.ubitusSupported = (toLowerCase(d.deviceModel) = "ipad")

C24_Witness ==
  /\ IsCached
  /\ Cached.browserName = "Edge"
  /\ Cached.browserVersion = 91
  /\ Cached.osName = "Windows"
  /\ Cached.geforceSupported
  /\ ~Cached.ubitusSupported

\* The descriptor computed for the page, whatever was asked before.
Computed == BrowserSupport(getUserAgent(navigator))

Matches(element, target) ==
  IF target.kind = "constructor" THEN target.class \in Extends(element.class)
  ELSE element # NonError /\ element.id = target.id

\* The chain from its first element that matches the target on; undefined
\* when none does.
FirstMatch(value, target) ==
  LET hits == {i \in 1..Len(value) : Matches(value[i], target)}
      first == CHOOSE i \in hits : \A j \in hits : i <= j
  IN IF hits = {} THEN <<>> ELSE SubSeq(value, first, Len(value))

\* C26: errors.as returns the first element of the chain value, value.cause,
\* ... that matches the target, and undefined when none matches, when the
\* value is no Error, and when the chain ends in a cause that is no Error.
C26_AsFirstMatch ==
  answer.op = "as" =>
    LET value == given.fn.value
        target == targetOf(given.types)
    IN /\ answer.result = Returns(FirstMatch(value, target))
       /\ (value = <<>> \/ value[1] = NonError) => answer.result.value = <<>>
       /\ (\A i \in 1..Len(value) : ~Matches(value[i], target)) =>
            answer.result.value = <<>>

C26_Witness ==
  /\ given.fn.value = <<ErrorObject("CustomError", 1), ErrorObject("Error", 2)>>
  /\ given.types = <<InstanceTarget(2)>>
  /\ answer.op = "as"
  /\ answer.result.value = <<ErrorObject("Error", 2)>>

\* C27: errors.catch returns what fn returns; without types it returns what
\* fn throws, as it is when that is an Error and otherwise as the cause of a
\* new Error; with types it returns what fn throws when that matches one of
\* them and rethrows it unchanged when it matches none.
C27_Catch ==
  answer.op = "catch" =>
    LET fn == given.fn
        types == given.types
        thrown == fn.value
        matched == /\ thrown # <<>>
                   /\ \E i \in 1..Len(types) : Matches(thrown[1], types[i])
    IN /\ fn.kind = "returns" => answer.result = Returns(fn.value)
       /\ (fn.kind = "throws" /\ types = <<>>) =>
            /\ answer.result.kind = "returns"
            /\ IF thrown # <<>> /\ thrown[1] # NonError
               THEN answer.result.value = thrown
               ELSE /\ answer.result.value[1] = ErrorObject("Error", 0)
                    /\ Tail(answer.result.value) = thrown
       /\ (fn.kind = "throws" /\ types # <<>>) =>
            answer.result = (IF matched THEN Returns(thrown) ELSE Throws(thrown))

C27_Witness ==
  /\ given.fn = Throws(<<ErrorObject("Error", 1)>>)
  /\ given.types = <<ConstructorTarget("CustomError"), InstanceTarget(2)>>
  /\ answer.op = "catch"
  /\ answer.result = Throws(<<ErrorObject("Error", 1)>>)

\* The earlier setup made a refresh request after the marker was left, and
\* an event was emitted after it.
Outlived(m) ==
  /\ \E j \in (m.requests + 1)..Len(requests) :
       requests[j].op = "setup" /\ requests[j].method = "refresh"
  /\ Len(events) > m.events

\* C22: a stop call or a later setup call does not end the poll loop of the
\* setup in flight. Such a call leaves the loop where it is; after it, a poll
\* timer that fires on a session still waiting is followed by the next
\* refresh request as before, every wait is the poll interval, and a refresh
\* answered with the Active state emits sessionStateUpdated for the earlier
\* session.
C22_AbandonedPollContinues ==
  [][/\ abandoned' # abandoned
          => UNCHANGED <<sPc, session, responses, callbacks, events, waits>>
     /\ (/\ abandoned # <<>>
         /\ sPc["setup"].at = "timer"
         /\ sPc'["setup"] # sPc["setup"]
         /\ session.state \in {Queued, Admitted, Pending, Ready})
          => /\ sPc'["setup"].at \in {"token", "fetch"}
             /\ sPc'["setup"].method = "refresh"
     /\ (/\ abandoned # <<>>
         /\ sPc["setup"].method = "refresh"
         /\ Len(responses') > Len(responses)
         /\ responses'[Len(responses')].kind = "ok"
         /\ responses'[Len(responses')].session.state = Active)
          => /\ events' = Append(events, Ev("sessionStateUpdated", Active, Undefined, 0))
             /\ callbacks' = Append(callbacks, Active)
     /\ \A i \in 1..Len(waits') : waits'[i] = SESSION_POLL_INTERVAL_MILLIS]_vars

\* A stop call and a later setup call were both made during the earlier
\* setup, which went on to another refresh request and to an event.
C22_Witness ==
  \E i, j \in 1..Len(abandoned) :
    /\ abandoned[i].by = "stop" /\ Outlived(abandoned[i])
    /\ abandoned[j].by = "setup" /\ Outlived(abandoned[j])
    /\ events[Len(events)].state = Active

\* A caller holds the driver from the return of getOrInitClient until its
\* start settles.
Holds(a) == pc[a] \in {"gotClient", "awaitStart"}

\* A call of start by caller a that reaches the acquisition of the driver:
\* Embedded target, supported provider, container found.
Acquires(a) ==
  /\ pc[a] = "idle" /\ pc'[a] # "idle"
  /\ opts'[a].target = Embedded
  /\ supported(opts'[a].provider)
  /\ ~is(resolveContainer(opts'[a].container))

\* C28: at most one driver instance is ever constructed, in every
\* interleaving of the acquisitions of concurrent callers, those that begin
\* before the first has loaded and initialized the engine included.
C28_OneDriverInstance == instances <= 1

\* C29: a start call made while another caller holds the initialized driver
\* ends with the already-initialized error and does not go on to the same
\* driver.
C29_SecondStartRefused ==
  [][\A a \in Callers :
       (Acquires(a) /\ client # 0 /\ \E b \in Callers \ {a} : Holds(b))
         => /\ pc'[a] = "done"
            /\ result'[a].name = "GFNClientAlreadyInitialized"]_vars

\* C30: the engine's script element is appended to the document at most
\* once, however many acquisitions begin before the first load completes.
C30_OneScriptElement == scripts <= 1

\* C31: an acquisition that ends because GFN.initialize or getServerInfo
\* failed returns a GFNClientError whose cause is the failure and leaves the
\* module's client and the number of instances as they were; a start that
\* finds the module without a client begins initialization again.
C31_InitFailureRetry ==
  [][\A a \in Callers :
       /\ (pc[a] \in {"awaitInitialize", "awaitServerInfo"} /\ pc'[a] = "done")
            => /\ result'[a] = [name |-> "GFNClientError", cause |-> OtherCause]
               /\ client' = client
               /\ instances' = instances
       /\ (Acquires(a) /\ client = 0) => pc'[a] \in {"awaitLoad", "loaded"}]_vars

\* One caller's initialization failed, and a caller that began when the
\* engine was loaded and the module had no client initialized it again and
\* got the only instance.
C31_Witness ==
  \E a, b \in Callers :
    /\ a # b
    /\ result[a] = [name |-> "GFNClientError", cause |-> OtherCause]
    /\ Called(b, "initClient") /\ ~Called(b, "script")
    /\ pc[b] = "gotClient"
    /\ client = 1 /\ instances = 1

\* The calls that GFNClient.start makes on the document and the engine.
Appends == {i \in 1..Len(engineLog) : engineLog[i] = Call("append")}

\* C32: the document holds at most one embed node of the instance, the one
\* in this.player; every append but the first comes straight after the
\* removal of the previous player and the engine's cancel, in that order.
C32_OneEmbedNode ==
  /\ Cardinality(attached) <= 1
  /\ player # 0 => attached = {player}
  /\ \A i \in Appends :
       (\E j \in Appends : j < i)
         => /\ i > 2
            /\ engineLog[i - 2] = Call("remove")
            /\ engineLog[i - 1] = Call("GFN.streamer.cancel")

\* Two calls of start were both parked at the login, and both went on to
\* attach a player, the second while the first was parked at the engine's
\* start.
C32_Witness ==
  /\ nodes >= 2
  /\ \E d, e \in DriverStarts :
       d # e /\ starts[d] = "awaitStreamer" /\ starts[e] = "awaitStreamer"

\* C33: 'started' invokes onStarted; 'diagnostic' invokes onTerminated with
\* a termination error of the signal's code and reason -1 when the code is
\* RequestLimitExceeded or SessionLimitExceeded, and nothing otherwise;
\* 'terminated' invokes onTerminated, without an error when the code is
\* absent or ServerDisconnectedIntended, and otherwise with a termination
\* error of the signal's code and reason.
C33_ListenMapping ==
  answer.op = "listen" =>
    LET r == answer.result
        none == [kind |-> "undefined", code |-> "undefined", reason |-> 0]
    IN CASE given.signal = "started" -> r.cb = "onStarted"
         [] given.signal = "diagnostic" ->
              IF given.code \in {"RequestLimitExceeded", "SessionLimitExceeded"}
              THEN /\ r.cb = "onTerminated"
                   /\ r.cause = [kind |-> "GFNTerminationError", code |-> given.code,
                                 reason |-> -1]
              ELSE r.cb = "none"
         [] given.signal = "terminated" ->
              /\ r.cb = "onTerminated"
              /\ IF given.code \in {"undefined", "ServerDisconnectedIntended"}
                 THEN r.cause = none
                 ELSE r.cause = [kind |-> "GFNTerminationError", code |-> given.code,
                                 reason |-> given.reason]

\* A diagnostic with a code that is no limit code was delivered.
C33_Witness ==
  /\ answer.op = "listen"
  /\ given.signal = "diagnostic"
  /\ given.code = NetworkError

\* The first GFNTerminationError of a reason's chain, or <<>>.
Terminations(reason) ==
  {i \in 1..Len(reason) : reason[i].class = "GFNTerminationError"}
FirstTermination(reason) ==
  IF Terminations(reason) = {} THEN <<>>
  ELSE <<reason[CHOOSE i \in Terminations(reason) :
                  \A j \in Terminations(reason) : i <= j]>>

\* The codes of the reasons, in upper-case hexadecimal.
HexOf(code) ==
  CASE code = 0 -> "0" [] code = 171 -> "AB"
    [] code = 15859712 -> "F20000" [] code = 15868704 -> "F22320"

\* C34: with a GFNTerminationError as the reason or among its causes, the
\* deletion reason is "GFN: <message> (reason=<reason>, code=0x<CODE>)", the
\* message being the termination error's, or the reason's own when that is
\* empty, and the code in upper-case hexadecimal; without one it is the
\* reason's message for an Error, the reason for a string, and absent when
\* no reason is given.
C34_DeletionReason ==
  answer.op = "cleanup" =>
    LET reason == given.reason
        g == FirstTermination(reason)
    IN IF g # <<>>
       THEN /\ answer.result.kind = "string"
            /\ answer.result.text =
                 "GFN: " \o (IF g[1].message = "" THEN reason[1].message
                             ELSE g[1].message)
                   \o " (reason=" \o (IF g[1].reason = 7 THEN "7" ELSE "-1")
                   \o ", code=0x" \o HexOf(g[1].code) \o ")"
       ELSE IF reason = <<>> THEN answer.result.kind = "undefined"
       ELSE /\ answer.result.kind = "string"
            /\ answer.result.text = reason[1].message

\* cleanup was given an error whose cause is a termination error with an
\* empty message and a code with letters in its hexadecimal form.
C34_Witness ==
  /\ answer.op = "cleanup"
  /\ Len(given.reason) = 2
  /\ given.reason[1].class = "StreamTerminationError"
  /\ given.reason[2] = ReasonTermination("", 15868704, 7)
  /\ answer.result.text = "GFN: boom (reason=7, code=0xF22320)"

\* The callers whose callbacks emitted something in this step.
Fired == {a \in Callers : trace'[a] # trace[a]}

\* C35: one 'started' or 'terminated' signal of the engine makes the
\* callbacks of exactly one start call emit, however many Embedded start
\* calls the page has made: one Streaming event, or one error event and one
\* Terminated event.
C35_OneEventPerSignal ==
  [][(engineEvents' # engineEvents /\ lastSignal'.signal \in {"started", "terminated"})
       => Cardinality(Fired) = 1]_vars

\* C36: every run of a start's onTerminated closure emits the error event,
\* then the Terminated event, and only then calls cleanup: in the trace an
\* error event is directly followed by the Terminated event of the same error,
\* and a deleteSession call directly follows that pair. The closure does not
\* wait for the deletion: the step that calls cleanup leaves the delete
\* request unanswered, also when it is the step in which start returns.
C36_EventsThenDelete ==
  [][/\ \A i \in 1..Len(trace'[1]) :
          /\ trace'[1][i].type = "error"
               => /\ i < Len(trace'[1])
                  /\ trace'[1][i + 1] =
                       Ev("streamStateUpdated", "Terminated", trace'[1][i].error, 0)
          /\ trace'[1][i].type = "deleteSession"
               => /\ i > 2
                  /\ trace'[1][i - 2] = Ev("error", "", trace'[1][i].error, 0)
                  /\ trace'[1][i - 1] =
                       Ev("streamStateUpdated", "Terminated", trace'[1][i].error, 0)
     /\ (CleanupCalled' /\ ~CleanupCalled)
          => /\ sPc'["cleanup"].at \in {"token", "fetch"}
             /\ answered'["cleanup"] = Unanswered
             /\ settled'["cleanup"] = UnsettledOp]_vars

\* start has returned an error, and the delete request its closure made is
\* still in flight.
C36_Witness ==
  /\ pc[1] = "done" /\ is(result[1])
  /\ CleanupCalled
  /\ sPc["cleanup"] = Parked("fetch", "delete")

\* The Terminated events of a caller's trace.
Terminateds(a) == {i \in 1..Len(trace[a]) :
                     trace[a][i].type = "streamStateUpdated"
                       /\ trace[a][i].state = "Terminated"}
OpenedTab(a) == pc[a] = "done" /\ result[a] = [name |-> "tab", cause |-> NoCause]

\* C37: for a tab that a Window-target start opened, the interval emits
\* nothing while the tab is open; the first time it fires after the tab was
\* closed it clears itself and emits one Terminated event without an error,
\* which happens if the interval keeps firing; a cleared interval emits
\* nothing more.
C37_TabTimer ==
  /\ [][\A a \in Callers :
          /\ (OpenedTab(a) /\ trace'[a] # trace[a])
               => /\ tabClosed[a] /\ timerActive[a] /\ ~timerActive'[a]
                  /\ trace'[a] = trace[a] \o
                       <<Ev("call", "clearInterval", Undefined, 0),
                         Ev("streamStateUpdated", "Terminated", Undefined, 0)>>
          /\ (OpenedTab(a) /\ timerActive'[a] # timerActive[a])
               => trace'[a] # trace[a]
          /\ OpenedTab(a)'
               => Cardinality(Terminateds(a)') =
                    (IF tabClosed'[a] /\ ~timerActive'[a] THEN 1 ELSE 0)]_vars
  /\ \A a \in Callers :
       (OpenedTab(a) /\ tabClosed[a]) ~> (Cardinality(Terminateds(a)) = 1)

\* A tab was opened, it was closed, and the interval has seen it.
C37_Witness ==
  \E a \in Callers :
    OpenedTab(a) /\ tabClosed[a] /\ ~timerActive[a] /\ Cardinality(Terminateds(a)) = 1

\* Every refresh so far was answered with a session that is still waiting.
IsWaiting(o) == o.kind = "ok" /\ o.session.state \in {Queued, Admitted, Pending, Ready}
AllWaiting == \A i \in 1..Len(responses) : IsWaiting(responses[i])

C39_OneDeletePerSession ==
  \A a \in Callers : is(result[a]) => Len(Deletes(a)) <= 1

\* C40: every call of errors.as comes to an end, by returning or by
\* throwing, whatever value it is given, a chain of causes that leads back
\* into itself and holds no match included.
C40_AsTerminates == <>(answer.op = "as" /\ answer.status \in {"returned", "threw"})

====
